---- MODULE Spec2Model ----
(***************************************************************************)
(* A model of the looping and aggregation algorithms of                    *)
(* src/src/algorithm/loops.rs (repeat, do, partition, group and their      *)
(* inverses), run by an interpreter on a value stack and a function stack, *)
(* and of the array container of src/src/array.rs.                         *)
(*                                                                         *)
(* A Value is a record [kind, shape, data]: kind is "num" (data is a       *)
(* sequence of integers) or "box" (data is a sequence of Values); shape is *)
(* the sequence of dimension sizes and data the row-major elements. The    *)
(* scalars that are no integers have the kinds "half", "inf" and "nan".    *)
(* Sequences are 1-based here; the code's 0-based index i is i + 1 here.   *)
(***************************************************************************)
EXTENDS Integers, Sequences, FiniteSets, TLC

VARIABLES
    stack,   \* the value stack, top last
    fstack,  \* the function stack, top last
    fill,    \* the ambient fill value: <<>> or <<v>>
    status,  \* "ok" while the program runs, else the error (or "panic") that ended it
    prog,    \* the primitives still to run, next first
    last,    \* the handler that ran last: its name, the stacks it started from,
             \* the groups it formed and the calls of f it made
    scen,    \* the program and the stack the run started from
    array,   \* an Array of array.rs: its element type, shape and data
    alast    \* the operation of array.rs that ran last: its name, the array
             \* it found and what it returned

vars == <<stack, fstack, fill, status, prog, last, scen, array, alast>>

(* ---------------------------------------------------------------------- *)
(* Bounds of the model                                                     *)
(* ---------------------------------------------------------------------- *)
MaxRows == 3
MaxIndex == 2
MaxGroups == 2
MaxGroupLen == 2
MaxCount == 3
MaxIter == 4
MaxDo == 12
MaxDim == 2
MaxData == 3
Limit == 2

(* isize::MAX, the initial value of last_marker (a 32-bit target's isize). *)
ISizeMax == 2147483647

(* ---------------------------------------------------------------------- *)
(* Values                                                                  *)
(* ---------------------------------------------------------------------- *)
Arr(kind, shape, data) == [kind |-> kind, shape |-> shape, data |-> data]

Num(shape, data) == Arr("num", shape, data)

Scalar(x) == Arr("num", <<>>, <<x>>)

RECURSIVE Prod(_)
Prod(shape) == IF shape = <<>> THEN 1 ELSE Head(shape) * Prod(Tail(shape))

RECURSIVE Flatten(_)
Flatten(seqs) == IF seqs = <<>> THEN <<>> ELSE Head(seqs) \o Flatten(Tail(seqs))

Max2(a, b) == IF a >= b THEN a ELSE b

(* Structural equality of two values; the kinds are compared first because *)
(* the elements of a num array and of a box array are of different sorts.  *)
RECURSIVE ValEq(_, _)
ValEq(a, b) ==
    /\ a.kind = b.kind
    /\ a.shape = b.shape
    /\ Len(a.data) = Len(b.data)
    /\ IF a.kind = "box"
       THEN \A i \in 1..Len(a.data) : ValEq(a.data[i], b.data[i])
       ELSE a.data = b.data

SeqValEq(s, t) ==
    /\ Len(s) = Len(t)
    /\ \A i \in 1..Len(s) : ValEq(s[i], t[i])

rank(v) == Len(v.shape)

row_count(v) == IF v.shape = <<>> THEN 1 ELSE v.shape[1]

row_len(v) == IF v.shape = <<>> THEN 1 ELSE Prod(Tail(v.shape))

(* row(i) of the code is RowAt(v, i + 1); a row outside the array panics,  *)
(* which the callers test with RowInBounds.                                *)
RowInBounds(v, i) == v.shape = <<>> \/ (1 <= i /\ i <= row_count(v))

RowAt(v, i) ==
    IF v.shape = <<>> THEN v
    ELSE Arr(v.kind, Tail(v.shape),
             SubSeq(v.data, (i - 1) * row_len(v) + 1, i * row_len(v)))

into_rows(v) == [i \in 1..row_count(v) |-> RowAt(v, i)]

(* The slices of shape row_shape, in row-major order.                      *)
into_row_shaped_slices(v, row_shape) ==
    LET n == Prod(row_shape)
        cnt == IF n = 0 THEN 0 ELSE Len(v.data) \div n
    IN [i \in 1..cnt |-> Arr(v.kind, row_shape, SubSeq(v.data, (i - 1) * n + 1, i * n))]

Boxed(v) == Arr("box", <<>>, <<v>>)

(* Value::unboxed: a scalar box gives its content, anything else itself.   *)
unboxed(v) == IF v.kind = "box" /\ v.shape = <<>> THEN v.data[1] ELSE v

(* Array::from_iter over boxed values: a rank-1 box array.                 *)
from_iter_boxed(vals) == Arr("box", <<Len(vals)>>, vals)

(* Array::from_row_arrays_infallible: the rows, all of one shape, stacked; *)
(* no rows give the empty list.                                            *)
from_row_arrays_infallible(kind, rows) ==
    IF Len(rows) = 0 THEN Arr(kind, <<0>>, <<>>)
    ELSE Arr(kind, <<Len(rows)>> \o rows[1].shape,
             Flatten([i \in 1..Len(rows) |-> rows[i].data]))

(* Value::from_row_values: one row per value; rows of different shapes or  *)
(* kinds cannot be combined and give an error.                             *)
from_row_values(rows) ==
    IF Len(rows) = 0 THEN [ok |-> TRUE, val |-> Arr("num", <<0>>, <<>>)]
    ELSE IF \A i \in 1..Len(rows) :
                rows[i].kind = rows[1].kind /\ rows[i].shape = rows[1].shape
         THEN [ok |-> TRUE, val |-> from_row_arrays_infallible(rows[1].kind, rows)]
         ELSE [ok |-> FALSE, val |-> Arr("num", <<0>>, <<>>)]

(* Value::as_ints / as_integer_array: only an array of integers converts.  *)
as_ints_ok(v) == v.kind = "num" /\ rank(v) <= 1

as_integer_array_ok(v) == v.kind = "num"

(* ---------------------------------------------------------------------- *)
(* The execution environment: the value stack (top = last element), the    *)
(* function stack, and the callable functions                              *)
(* ---------------------------------------------------------------------- *)
Top(st) == st[Len(st)]

Pop(st) == SubSeq(st, 1, Len(st) - 1)

NoFill == <<>>

(* The threshold of the condition function lt.                             *)
Ten == 10

(* The functions of the model, each with its declared signature.           *)
Funcs == {"id", "inc", "lim", "sat", "part", "zero", "one", "noop", "drop",
          "both", "lt", "swap", "join"}

Sig(f) ==
    CASE f \in {"id", "inc", "lim", "sat", "part", "lt"} -> [args |-> 1, outputs |-> 1]
      [] f \in {"zero", "one"} -> [args |-> 0, outputs |-> 1]
      [] f = "noop" -> [args |-> 0, outputs |-> 0]
      [] f = "drop" -> [args |-> 1, outputs |-> 0]
      [] f = "both" -> [args |-> 1, outputs |-> 2]
      [] f = "swap" -> [args |-> 2, outputs |-> 2]
      [] f = "join" -> [args |-> 2, outputs |-> 1]

(* Signature::compose: the signature of running other and then self.       *)
compose(self, other) ==
    [args |-> other.args + Max2(self.args - other.outputs, 0),
     outputs |-> self.outputs + Max2(other.outputs - self.args, 0)]

(* Value::as_bool: only the scalar numbers 0 and 1 are booleans.           *)
as_bool_ok(v) == v.kind = "num" /\ v.shape = <<>> /\ v.data[1] \in {0, 1}

(* The bodies, on the arguments a in stack order (the last is the top);    *)
(* the outputs are pushed in order, so the last is the first output.       *)
(*   id leaves its argument, inc adds 1 to every number, lim is inc that   *)
(*   fails on an argument holding a number >= Limit, sat is inc that       *)
(*   leaves the numbers >= Limit as they are, zero and one push a number,  *)
(*   both leaves its argument on top of its increment, lt tests < Ten,     *)
(*   join is the list of the top's elements followed by the other's.       *)
IncVal(v) == Num(v.shape, [i \in 1..Len(v.data) |-> v.data[i] + 1])

SatVal(v) ==
    Num(v.shape, [i \in 1..Len(v.data) |->
                     IF v.data[i] < Limit THEN v.data[i] + 1 ELSE v.data[i]])

LtVal(v) == Num(v.shape, [i \in 1..Len(v.data) |-> IF v.data[i] < Ten THEN 1 ELSE 0])

CallBody(f, a) ==
    CASE f = "id" -> [ok |-> TRUE, out |-> a]
      [] f = "inc" ->
            IF a[1].kind = "num" THEN [ok |-> TRUE, out |-> <<IncVal(a[1])>>]
            ELSE IF a[1].kind = "inf" THEN [ok |-> TRUE, out |-> a]
            ELSE [ok |-> FALSE, out |-> <<>>]
      [] f = "lim" ->
            IF a[1].kind = "num" /\ \A i \in 1..Len(a[1].data) : a[1].data[i] < Limit
            THEN [ok |-> TRUE, out |-> <<IncVal(a[1])>>]
            ELSE [ok |-> FALSE, out |-> <<>>]
      [] f = "sat" ->
            IF a[1].kind = "num" THEN [ok |-> TRUE, out |-> <<SatVal(a[1])>>]
            ELSE [ok |-> FALSE, out |-> <<>>]
      [] f = "zero" -> [ok |-> TRUE, out |-> <<Scalar(0)>>]
      [] f = "one" -> [ok |-> TRUE, out |-> <<Scalar(1)>>]
      [] f = "noop" -> [ok |-> TRUE, out |-> <<>>]
      [] f = "drop" -> [ok |-> TRUE, out |-> <<>>]
      [] f = "both" ->
            IF a[1].kind = "num" THEN [ok |-> TRUE, out |-> <<IncVal(a[1]), a[1]>>]
            ELSE [ok |-> FALSE, out |-> <<>>]
      [] f = "lt" ->
            IF a[1].kind = "num" THEN [ok |-> TRUE, out |-> <<LtVal(a[1])>>]
            ELSE [ok |-> FALSE, out |-> <<>>]
      [] f = "swap" -> [ok |-> TRUE, out |-> <<a[2], a[1]>>]
      [] f = "join" ->
            IF a[1].kind = "num" /\ a[2].kind = "num"
            THEN [ok |-> TRUE,
                  out |-> <<Num(<<Len(a[2].data) + Len(a[1].data)>>,
                                a[2].data \o a[1].data)>>]
            ELSE [ok |-> FALSE, out |-> <<>>]

(* The markers part partitions its argument by: one run of all its rows.   *)
AllOnes(v) == Num(<<row_count(v)>>, [i \in 1..row_count(v) |-> 1])

(* What a call is logged as: the function, whether it succeeded, the stack *)
(* it started from and the stack it left, the top of the stack and the     *)
(* arguments it was given (top first), the fill value in force when it     *)
(* started and when it returned, and the calls made inside it.             *)
CallLog(f, ok, st, after, fl, fill_after, inner) ==
    [f |-> f, ok |-> ok, stack |-> st, after |-> after,
     arg |-> IF Len(st) = 0 THEN <<>> ELSE <<Top(st)>>,
     args |-> [k \in 1..(IF Len(st) < Sig(f).args THEN Len(st) ELSE Sig(f).args) |->
                  st[Len(st) + 1 - k]],
     fill |-> fl, fill_after |-> fill_after, inner |-> inner]

(* The outcome of a handler: its status, the stacks it leaves, the groups  *)
(* it formed and the calls it made.                                        *)
Res(st, s, fs, g, c) ==
    [status |-> st, stack |-> s, fstack |-> fs, groups |-> g, calls |-> c]

(* ---------------------------------------------------------------------- *)
(* partition_groups                                                        *)
(* ---------------------------------------------------------------------- *)
RECURSIVE partition_loop(_, _, _, _, _)
partition_loop(rows, markers, i, groups, last_marker) ==
    IF i > Len(markers) \/ i > Len(rows)
    THEN [status |-> "ok", groups |-> groups]
    ELSE LET marker == markers[i] IN
         IF marker > 0
         THEN LET g1 == IF marker # last_marker THEN Append(groups, <<>>) ELSE groups
              IN IF Len(g1) = 0
                 THEN [status |-> "panic", groups |-> groups]
                 ELSE partition_loop(rows, markers, i + 1,
                          [g1 EXCEPT ![Len(g1)] = Append(@, rows[i])], marker)
         ELSE partition_loop(rows, markers, i + 1, groups, marker)

array_partition_groups(arr, markers) ==
    IF Len(markers) # row_count(arr)
    THEN [status |-> "shape", groups |-> <<>>]
    ELSE LET r == partition_loop(into_rows(arr), markers, 1, <<>>, ISizeMax)
         IN [status |-> r.status,
             groups |-> [k \in 1..Len(r.groups) |->
                            from_row_arrays_infallible(arr.kind, r.groups[k])]]

partition_groups(values, markers) ==
    IF rank(markers) # 1
    THEN [status |-> "shape", groups |-> <<>>]
    ELSE array_partition_groups(values, markers.data)

(* ---------------------------------------------------------------------- *)
(* group_groups                                                            *)
(* ---------------------------------------------------------------------- *)
starts_with(shape, prefix) ==
    /\ Len(prefix) <= Len(shape)
    /\ SubSeq(shape, 1, Len(prefix)) = prefix

RECURSIVE SeqMax(_)
SeqMax(s) == IF Len(s) = 1 THEN s[1] ELSE Max2(s[1], SeqMax(Tail(s)))

(* group_loop with each slice put in front of its group instead of behind. *)
RECURSIVE group_loop_reversed(_, _, _, _)
group_loop_reversed(idx, slices, j, groups) ==
    IF j > Len(idx) \/ j > Len(slices) THEN groups
    ELSE IF idx[j] >= 0
         THEN group_loop_reversed(idx, slices, j + 1,
                  [groups EXCEPT ![idx[j] + 1] = <<slices[j]>> \o @])
         ELSE group_loop_reversed(idx, slices, j + 1, groups)

RECURSIVE group_loop(_, _, _, _)
group_loop(idx, slices, j, groups) ==
    IF j > Len(idx) \/ j > Len(slices) THEN groups
    ELSE IF idx[j] >= 0
         THEN group_loop(idx, slices, j + 1,
                  [groups EXCEPT ![idx[j] + 1] = Append(@, slices[j])])
         ELSE group_loop(idx, slices, j + 1, groups)

group_count(max_index) == Max2(max_index, 0) + 1

array_group_groups(arr, indices) ==
    IF ~starts_with(arr.shape, indices.shape)
    THEN [status |-> "shape", groups |-> <<>>]
    ELSE IF Len(indices.data) = 0
    THEN [status |-> "ok", groups |-> <<>>]
    ELSE LET max_index == SeqMax(indices.data)
             row_shape == SubSeq(arr.shape, rank(indices) + 1, Len(arr.shape))
             gs == group_loop(indices.data, into_row_shaped_slices(arr, row_shape), 1,
                              [k \in 1..group_count(max_index) |-> <<>>])
         IN [status |-> "ok",
             groups |-> [k \in 1..Len(gs) |->
                            from_row_arrays_infallible(arr.kind, gs[k])]]

group_groups(values, indices) == array_group_groups(values, indices)

get_groups(prim, values, indices) ==
    IF prim = "partition" THEN partition_groups(values, indices)
    ELSE group_groups(values, indices)

(* ---------------------------------------------------------------------- *)
(* Calls                                                                   *)
(* ---------------------------------------------------------------------- *)
(* The body of part: a nested partition of its argument, all rows in one   *)
(* run, with the function id: the fill value is masked for the calls of id *)
(* and put back after them. g is the outcome of partition_groups.          *)
nested_calls(base, groups) ==
    [k \in 1..Len(groups) |->
        CallLog("id", TRUE, Append(base, groups[k]), Append(base, groups[k]),
                NoFill, NoFill, <<>>)]

nested_combine(base, groups, r, fl) ==
    IF ~r.ok
    THEN [status |-> "combine", stack |-> base, fill |-> fl,
          calls |-> nested_calls(base, groups)]
    ELSE [status |-> "ok", stack |-> Append(base, r.val), fill |-> fl,
          calls |-> nested_calls(base, groups)]

nested_groups(base, g, fl) ==
    IF g.status # "ok"
    THEN [status |-> g.status, stack |-> base, fill |-> fl, calls |-> <<>>]
    ELSE nested_combine(base, g.groups, from_row_values(g.groups), fl)

nested_partition(st, fl) ==
    nested_groups(Pop(st), partition_groups(Top(st), AllOnes(Top(st))), fl)

(* env.call under the fill value fl: takes signature.args values, leaves   *)
(* signature.outputs; a failing function has consumed its arguments.       *)
call_nested(f, st, fl, r) ==
    [ok |-> r.status = "ok", stack |-> r.stack, fill |-> r.fill,
     log |-> CallLog(f, r.status = "ok", st, r.stack, fl, r.fill, r.calls)]

call_body(f, st, fl, base, r) ==
    [ok |-> r.ok, stack |-> base \o r.out, fill |-> fl,
     log |-> CallLog(f, r.ok, st, base \o r.out, fl, fl, <<>>)]

Call(f, st, fl) ==
    IF Len(st) < Sig(f).args
    THEN [ok |-> FALSE, stack |-> st, fill |-> fl,
          log |-> CallLog(f, FALSE, st, st, fl, fl, <<>>)]
    ELSE IF f = "part" THEN call_nested(f, st, fl, nested_partition(st, fl))
    ELSE call_body(f, st, fl, SubSeq(st, 1, Len(st) - Sig(f).args),
                   CallBody(f, SubSeq(st, Len(st) - Sig(f).args + 1, Len(st))))

(* ---------------------------------------------------------------------- *)
(* collapse_groups (partition and group)                                   *)
(* ---------------------------------------------------------------------- *)
(* Lines 391-396: pop max(outputs, 1) results of one call; the j-th popped *)
(* goes to rows[j] when the function takes the group as its argument.      *)
RECURSIVE pop_results(_, _, _, _, _)
pop_results(st, k, j, rows, sig) ==
    IF j > k THEN [status |-> "ok", stack |-> st, rows |-> rows]
    ELSE IF Len(st) = 0 THEN [status |-> "underflow", stack |-> st, rows |-> rows]
    ELSE IF sig.args = 1
         THEN IF j > Len(rows)
              THEN [status |-> "panic", stack |-> Pop(st), rows |-> rows]
              ELSE pop_results(Pop(st), k, j + 1,
                       [rows EXCEPT ![j] = Append(@, Top(st))], sig)
         ELSE pop_results(Pop(st), k, j + 1, rows, sig)

(* Lines 388-397: one call of f per group, in group order, under the fill  *)
(* value fl of the closure; the group is pushed whatever f's signature is. *)
RECURSIVE map_groups(_, _, _, _, _, _, _)
map_groups(f, gs, i, st, rows, calls, fl) ==
    IF i > Len(gs)
    THEN [status |-> "ok", stack |-> st, rows |-> rows, calls |-> calls, fill |-> fl]
    ELSE LET c == Call(f, Append(st, gs[i]), fl)
             calls1 == Append(calls, c.log)
         IN IF ~c.ok
            THEN [status |-> "call_error", stack |-> c.stack, rows |-> rows,
                  calls |-> calls1, fill |-> c.fill]
            ELSE LET p == pop_results(c.stack, Max2(Sig(f).outputs, 1), 1, rows, Sig(f))
                 IN IF p.status # "ok"
                    THEN [status |-> p.status, stack |-> p.stack, rows |-> p.rows,
                          calls |-> calls1, fill |-> c.fill]
                    ELSE map_groups(f, gs, i + 1, p.stack, p.rows, calls1, c.fill)

(* without_fill that leaves the fill value as the closure left it.         *)
map_without_fill_no_restore(f, gs, st, rows, fl) ==
    map_groups(f, gs, 1, st, rows, <<>>, NoFill)

(* Lines 387-399: the loop runs inside without_fill, which masks the fill  *)
(* value for the closure and puts it back however the closure ends.        *)
map_without_fill(f, gs, st, rows, fl) ==
    [map_groups(f, gs, 1, st, rows, <<>>, NoFill) EXCEPT !.fill = fl]

(* Lines 400-402: the outputs are pushed last first, so that rows[1], the  *)
(* first output, ends on top.                                              *)
RECURSIVE push_rows(_, _, _)
push_rows(rows, j, st) ==
    IF j < 1 THEN [status |-> "ok", stack |-> st]
    ELSE LET v == from_row_values(rows[j])
         IN IF ~v.ok THEN [status |-> "combine", stack |-> st]
            ELSE push_rows(rows, j - 1, Append(st, v.val))

(* The fold that pushes the accumulator below the group.                   *)
RECURSIVE reduce_groups_acc_below(_, _, _, _, _, _, _)
reduce_groups_acc_below(f, gs, i, st, acc, calls, fl) ==
    IF i > Len(gs)
    THEN [status |-> "ok", stack |-> Append(st, acc), calls |-> calls, fill |-> fl]
    ELSE LET c == Call(f, Append(Append(st, acc), gs[i]), fl)
             calls1 == Append(calls, c.log)
         IN IF ~c.ok
            THEN [status |-> "call_error", stack |-> c.stack, calls |-> calls1,
                  fill |-> c.fill]
            ELSE IF Len(c.stack) = 0
            THEN [status |-> "underflow", stack |-> c.stack, calls |-> calls1,
                  fill |-> c.fill]
            ELSE reduce_groups_acc_below(f, gs, i + 1, Pop(c.stack), Top(c.stack),
                                         calls1, c.fill)

(* Lines 418-423: the left fold of the reducing form.                      *)
RECURSIVE reduce_groups(_, _, _, _, _, _, _)
reduce_groups(f, gs, i, st, acc, calls, fl) ==
    IF i > Len(gs)
    THEN [status |-> "ok", stack |-> Append(st, acc), calls |-> calls, fill |-> fl]
    ELSE LET c == Call(f, Append(Append(st, gs[i]), acc), fl)
             calls1 == Append(calls, c.log)
         IN IF ~c.ok
            THEN [status |-> "call_error", stack |-> c.stack, calls |-> calls1,
                  fill |-> c.fill]
            ELSE IF Len(c.stack) = 0
            THEN [status |-> "underflow", stack |-> c.stack, calls |-> calls1,
                  fill |-> c.fill]
            ELSE reduce_groups(f, gs, i + 1, Pop(c.stack), Top(c.stack), calls1, c.fill)

(* Lines 417-426: the fold runs inside without_fill.                       *)
reduce_without_fill(f, gs, st, acc, fl) ==
    [reduce_groups(f, gs, 1, st, acc, <<>>, NoFill) EXCEPT !.fill = fl]

(* The outcome of a handler together with the fill value it leaves.        *)
WithFill(r, fl) ==
    [status |-> r.status, stack |-> r.stack, fstack |-> r.fstack,
     groups |-> r.groups, calls |-> r.calls, fill |-> fl]

collapse_map(prim, f, st, fs, fl) ==
    IF Len(st) = 0 THEN WithFill(Res("underflow", st, fs, <<>>, <<>>), fl)
    ELSE IF ~as_integer_array_ok(Top(st))
    THEN WithFill(Res("type", Pop(st), fs, <<>>, <<>>), fl)
    ELSE IF Len(st) = 1 THEN WithFill(Res("underflow", Pop(st), fs, <<>>, <<>>), fl)
    ELSE LET indices == Top(st)
             values == Top(Pop(st))
             st2 == Pop(Pop(st))
             g == get_groups(prim, values, indices)
         IN IF g.status # "ok" THEN WithFill(Res(g.status, st2, fs, <<>>, <<>>), fl)
            ELSE LET m == map_without_fill(f, g.groups, st2,
                                           [j \in 1..Sig(f).outputs |-> <<>>], fl)
                 IN IF m.status # "ok"
                    THEN WithFill(Res(m.status, m.stack, fs, g.groups, m.calls), m.fill)
                    ELSE LET p == push_rows(m.rows, Len(m.rows), m.stack)
                         IN WithFill(Res(p.status, p.stack, fs, g.groups, m.calls),
                                     m.fill)

collapse_reduce(prim, f, st, fs, fl) ==
    IF Len(st) = 0 THEN WithFill(Res("underflow", st, fs, <<>>, <<>>), fl)
    ELSE IF ~as_integer_array_ok(Top(st))
    THEN WithFill(Res("type", Pop(st), fs, <<>>, <<>>), fl)
    ELSE IF Len(st) = 1 THEN WithFill(Res("underflow", Pop(st), fs, <<>>, <<>>), fl)
    ELSE LET indices == Top(st)
             values == Top(Pop(st))
             st2 == Pop(Pop(st))
             g == get_groups(prim, values, indices)
         IN IF g.status # "ok" THEN WithFill(Res(g.status, st2, fs, <<>>, <<>>), fl)
            ELSE IF Len(fl) = 0 /\ Len(g.groups) = 0
            THEN WithFill(Res("no_groups", st2, fs, g.groups, <<>>), fl)
            ELSE LET acc == IF Len(fl) > 0 THEN fl[1] ELSE g.groups[1]
                     rest == IF Len(fl) > 0 THEN g.groups ELSE Tail(g.groups)
                     r == reduce_without_fill(f, rest, st2, acc, fl)
                 IN WithFill(Res(r.status, r.stack, fs, g.groups, r.calls), r.fill)

collapse_groups(prim, st, fs, fl) ==
    IF Len(fs) = 0 THEN WithFill(Res("underflow", st, fs, <<>>, <<>>), fl)
    ELSE LET f == Top(fs)
             fs1 == Pop(fs)
         IN IF Sig(f).args \in {0, 1} THEN collapse_map(prim, f, st, fs1, fl)
            ELSE IF Sig(f).args = 2 /\ Sig(f).outputs = 1
            THEN collapse_reduce(prim, f, st, fs1, fl)
            ELSE WithFill(Res("signature", st, fs1, <<>>, <<>>), fl)

partition(st, fs, fl) == collapse_groups("partition", st, fs, fl)

group(st, fs, fl) == collapse_groups("group", st, fs, fl)

(* ---------------------------------------------------------------------- *)
(* unpartition_part1 / ungroup_part1                                       *)
(* ---------------------------------------------------------------------- *)
(* Lines 126-130 and 198-203: the rows are untransformed last row first;   *)
(* out collects the results in call order.                                 *)
RECURSIVE untransform_rows(_, _, _, _, _, _, _)
untransform_rows(f, rows, i, st, out, calls, fl) ==
    IF i < 1 THEN [status |-> "ok", stack |-> st, out |-> out, calls |-> calls]
    ELSE LET c == Call(f, Append(st, rows[i]), fl)
             calls1 == Append(calls, c.log)
         IN IF ~c.ok
            THEN [status |-> "call_error", stack |-> c.stack, out |-> out,
                  calls |-> calls1]
            ELSE IF Len(c.stack) = 0
            THEN [status |-> "underflow", stack |-> c.stack, out |-> out,
                  calls |-> calls1]
            ELSE untransform_rows(f, rows, i - 1, Pop(c.stack),
                                  Append(out, Top(c.stack)), calls1, c.fill)

Reverse(s) == [i \in 1..Len(s) |-> s[Len(s) + 1 - i]]

undo_part1(st, fs, fl) ==
    IF Len(fs) = 0 THEN Res("underflow", st, fs, <<>>, <<>>)
    ELSE LET f == Top(fs)
             fs1 == Pop(fs)
         IN IF Sig(f) # [args |-> 1, outputs |-> 1]
            THEN Res("signature", st, fs1, <<>>, <<>>)
            ELSE IF Len(st) = 0 THEN Res("underflow", st, fs1, <<>>, <<>>)
            ELSE LET rows == into_rows(Top(st))
                     r == untransform_rows(f, rows, Len(rows), Pop(st), <<>>, <<>>, fl)
                 IN IF r.status # "ok" THEN Res(r.status, r.stack, fs1, <<>>, r.calls)
                    ELSE Res("ok", Append(r.stack, from_iter_boxed(Reverse(r.out))),
                             fs1, <<>>, r.calls)

unpartition_part1(st, fs, fl) == undo_part1(st, fs, fl)

ungroup_part1(st, fs, fl) == undo_part1(st, fs, fl)

(* ---------------------------------------------------------------------- *)
(* unpartition_part2                                                       *)
(* ---------------------------------------------------------------------- *)
(* Lines 143-155: the maximal runs of equal markers, as (marker, length).  *)
RECURSIVE count_runs(_, _, _, _)
count_runs(markers, i, prev, parts) ==
    IF i > Len(markers) THEN parts
    ELSE IF markers[i] = prev
         THEN count_runs(markers, i + 1, markers[i],
                  [parts EXCEPT ![Len(parts)].len = @ + 1])
         ELSE count_runs(markers, i + 1, markers[i],
                  Append(parts, [marker |-> markers[i], len |-> 1]))

marker_partitions(markers) ==
    IF Len(markers) = 0 THEN <<>>
    ELSE count_runs(markers, 2, markers[1], <<[marker |-> markers[1], len |-> 1]>>)

(* positive_partitions with the runs of marker 0 counted too.              *)
positive_partitions_nonneg(parts) ==
    Cardinality({k \in 1..Len(parts) : parts[k].marker >= 0})

positive_partitions(parts) ==
    Cardinality({k \in 1..Len(parts) : parts[k].marker > 0})

(* Lines 171-179: a positive run takes all the rows of the next            *)
(* untransformed group, any other run the original rows at its offsets.    *)
RECURSIVE unpartition_loop(_, _, _, _, _, _, _)
unpartition_loop(parts, k, rows, next, original, offset, out) ==
    IF k > Len(parts) THEN [status |-> "ok", out |-> out]
    ELSE IF parts[k].marker > 0
         THEN IF next > Len(rows) THEN [status |-> "panic", out |-> out]
              ELSE unpartition_loop(parts, k + 1, rows, next + 1, original,
                       offset + parts[k].len, out \o into_rows(unboxed(rows[next])))
         ELSE IF \E j \in 1..parts[k].len : ~RowInBounds(original, offset + j)
              THEN [status |-> "panic", out |-> out]
              ELSE unpartition_loop(parts, k + 1, rows, next, original,
                       offset + parts[k].len,
                       out \o [j \in 1..parts[k].len |-> RowAt(original, offset + j)])

unpartition_part2(st, fs) ==
    IF Len(st) = 0 THEN Res("underflow", st, fs, <<>>, <<>>)
    ELSE IF Len(st) = 1 THEN Res("underflow", Pop(st), fs, <<>>, <<>>)
    ELSE IF ~as_ints_ok(Top(Pop(st))) THEN Res("type", Pop(Pop(st)), fs, <<>>, <<>>)
    ELSE IF Len(st) = 2 THEN Res("underflow", Pop(Pop(st)), fs, <<>>, <<>>)
    ELSE LET untransformed == Top(st)
             markers == Top(Pop(st)).data
             original == Top(Pop(Pop(st)))
             st3 == Pop(Pop(Pop(st)))
             parts == marker_partitions(markers)
         IN IF positive_partitions(parts) # row_count(untransformed)
            THEN Res("rows_changed", st3, fs, <<>>, <<>>)
            ELSE LET r == unpartition_loop(parts, 1, into_rows(untransformed), 1,
                                           original, 0, <<>>)
                     v == from_row_values(r.out)
                 IN IF r.status # "ok" THEN Res(r.status, st3, fs, <<>>, <<>>)
                    ELSE IF ~v.ok THEN Res("combine", st3, fs, <<>>, <<>>)
                    ELSE Res("ok", Append(st3, v.val), fs, <<>>, <<>>)

(* ---------------------------------------------------------------------- *)
(* ungroup_part2                                                           *)
(* ---------------------------------------------------------------------- *)
(* Lines 234-242: taken[g] counts the rows already drawn from group g; a   *)
(* negative index at flat position i (0-based) takes original.row(i).      *)
RECURSIVE ungroup_loop(_, _, _, _, _, _)
ungroup_loop(idx, i, rows, taken, original, out) ==
    IF i > Len(idx) THEN [status |-> "ok", out |-> out]
    ELSE IF idx[i] >= 0
         THEN LET g == idx[i] + 1 IN
              IF taken[g] >= Len(rows[g])
              THEN [status |-> "group_modified", out |-> out]
              ELSE ungroup_loop(idx, i + 1, rows, [taken EXCEPT ![g] = @ + 1],
                       original, Append(out, rows[g][taken[g] + 1]))
         ELSE IF ~RowInBounds(original, i)
              THEN [status |-> "panic", out |-> out]
              ELSE ungroup_loop(idx, i + 1, rows, taken, original,
                       Append(out, RowAt(original, i)))

(* Lines 244-247: the leading dimension gives way to the indices' shape.   *)
reshape_ungrouped(val, indices) ==
    Arr(val.kind, indices.shape \o Tail(val.shape), val.data)

ungroup_part2(st, fs) ==
    IF Len(st) = 0 THEN Res("underflow", st, fs, <<>>, <<>>)
    ELSE IF Len(st) = 1 THEN Res("underflow", Pop(st), fs, <<>>, <<>>)
    ELSE IF ~as_integer_array_ok(Top(Pop(st)))
    THEN Res("type", Pop(Pop(st)), fs, <<>>, <<>>)
    ELSE IF Len(st) = 2 THEN Res("underflow", Pop(Pop(st)), fs, <<>>, <<>>)
    ELSE LET ungrouped_rows == Top(st)
             indices == Top(Pop(st))
             original == Top(Pop(Pop(st)))
             st3 == Pop(Pop(Pop(st)))
             idx == indices.data
         IN IF \E j \in 1..Len(idx) :
                   idx[j] >= 0 /\ idx[j] >= row_count(ungrouped_rows)
            THEN Res("group_len_changed", st3, fs, <<>>, <<>>)
            ELSE LET rows == [k \in 1..row_count(ungrouped_rows) |->
                                 into_rows(unboxed(RowAt(ungrouped_rows, k)))]
                     r == ungroup_loop(idx, 1, rows, [k \in 1..Len(rows) |-> 0],
                                       original, <<>>)
                     v == from_row_values(r.out)
                 IN IF r.status # "ok" THEN Res(r.status, st3, fs, <<>>, <<>>)
                    ELSE IF ~v.ok THEN Res("combine", st3, fs, <<>>, <<>>)
                    ELSE Res("ok", Append(st3, reshape_ungrouped(v.val, indices)),
                             fs, <<>>, <<>>)

(* ---------------------------------------------------------------------- *)
(* repeat                                                                  *)
(* ---------------------------------------------------------------------- *)
(* A count is a scalar f64: an integer (kind "num"), a number of halves    *)
(* (kind "half", its datum h standing for h / 2), an infinity (kind "inf", *)
(* its datum the sign) or not-a-number (kind "nan").                       *)
Infinity(sign) == Arr("inf", <<>>, <<sign>>)

Half(h) == Arr("half", <<>>, <<h>>)

NaN == Arr("nan", <<>>, <<0>>)

as_num_ok(v) == v.kind \in {"num", "half", "inf", "nan"} /\ v.shape = <<>>

(* f64::is_infinite: true of both infinities.                              *)
is_infinite(v) == v.kind = "inf"

(* n < 0.0 and n.fract() != 0.0 of a count that is not infinite; every     *)
(* comparison with not-a-number is false but != which is true.             *)
is_negative(v) == v.kind \in {"num", "half"} /\ v.data[1] < 0

has_fract(v) == v.kind = "nan" \/ (v.kind = "half" /\ v.data[1] % 2 # 0)

(* n as usize of a count that is a natural number.                         *)
as_usize(v) == IF v.kind = "half" THEN v.data[1] \div 2 ELSE v.data[1]

(* The signature test that only refuses a function without arguments.      *)
converging_sig_error_no_args(sig) == sig.args = 0

(* Lines 24-36: the signatures the converging form refuses.                *)
converging_sig_error(sig) == sig.args = 0 \/ sig.args # sig.outputs

(* repeat_loop that goes on after a failing call.                          *)
RECURSIVE repeat_loop_no_abort(_, _, _, _, _)
repeat_loop_no_abort(f, n, st, calls, fl) ==
    IF n = 0 THEN [status |-> "ok", stack |-> st, calls |-> calls]
    ELSE repeat_loop_no_abort(f, n - 1, Call(f, st, fl).stack,
                              Append(calls, Call(f, st, fl).log), fl)

(* Lines 56-58: n calls of f, one after another; a failing call ends them. *)
RECURSIVE repeat_loop(_, _, _, _, _)
repeat_loop(f, n, st, calls, fl) ==
    IF n = 0 THEN [status |-> "ok", stack |-> st, calls |-> calls]
    ELSE LET c == Call(f, st, fl)
             calls1 == Append(calls, c.log)
         IN IF ~c.ok THEN [status |-> "call_error", stack |-> c.stack, calls |-> calls1]
            ELSE repeat_loop(f, n - 1, c.stack, calls1, c.fill)

(* The converging loop that compares every result with the first value.   *)
RECURSIVE converge_loop_first_prev(_, _, _, _, _, _)
converge_loop_first_prev(f, st, prev, fuel, calls, fl) ==
    IF fuel = 0 THEN [status |-> "running", stack |-> st, calls |-> calls]
    ELSE LET c == Call(f, st, fl)
             calls1 == Append(calls, c.log)
         IN IF ~c.ok THEN [status |-> "call_error", stack |-> c.stack, calls |-> calls1]
            ELSE IF Len(c.stack) = 0
            THEN [status |-> "underflow", stack |-> c.stack, calls |-> calls1]
            ELSE IF ValEq(Top(c.stack), prev)
            THEN [status |-> "ok", stack |-> c.stack, calls |-> calls1]
            ELSE converge_loop_first_prev(f, c.stack, prev, fuel - 1, calls1, c.fill)

(* Lines 39-50: the converging loop; a loop that has not converged after   *)
(* fuel calls is reported as still running.                                *)
RECURSIVE converge_loop(_, _, _, _, _, _)
converge_loop(f, st, prev, fuel, calls, fl) ==
    IF fuel = 0 THEN [status |-> "running", stack |-> st, calls |-> calls]
    ELSE LET c == Call(f, st, fl)
             calls1 == Append(calls, c.log)
         IN IF ~c.ok THEN [status |-> "call_error", stack |-> c.stack, calls |-> calls1]
            ELSE IF Len(c.stack) = 0
            THEN [status |-> "underflow", stack |-> c.stack, calls |-> calls1]
            ELSE IF ValEq(Top(c.stack), prev)
            THEN [status |-> "ok", stack |-> c.stack, calls |-> calls1]
            ELSE converge_loop(f, c.stack, Top(c.stack), fuel - 1, calls1, c.fill)

repeat(st, fs, fl) ==
    IF Len(fs) = 0 THEN Res("underflow", st, fs, <<>>, <<>>)
    ELSE IF Len(st) = 0 THEN Res("underflow", st, Pop(fs), <<>>, <<>>)
    ELSE LET f == Top(fs)
             fs1 == Pop(fs)
             n == Top(st)
             st1 == Pop(st)
         IN IF ~as_num_ok(n) THEN Res("domain", st1, fs1, <<>>, <<>>)
            ELSE IF is_infinite(n)
            THEN IF converging_sig_error(Sig(f)) THEN Res("signature", st1, fs1, <<>>, <<>>)
                 ELSE IF Len(st1) = 0 THEN Res("underflow", st1, fs1, <<>>, <<>>)
                 ELSE LET r == converge_loop(f, st1, Top(st1), MaxIter, <<>>, fl)
                      IN Res(r.status, r.stack, fs1, <<>>, r.calls)
            ELSE IF is_negative(n) \/ has_fract(n) THEN Res("domain", st1, fs1, <<>>, <<>>)
            ELSE LET r == repeat_loop(f, as_usize(n), st1, <<>>, fl)
                 IN Res(r.status, r.stack, fs1, <<>>, r.calls)

(* ---------------------------------------------------------------------- *)
(* do_                                                                     *)
(* ---------------------------------------------------------------------- *)
(* Line 75: g_sig.args.saturating_sub(g_sig.outputs - 1).                  *)
copy_count(g_sig) == Max2(g_sig.args - (g_sig.outputs - 1), 0)

(* Lines 76-77: the composition of f with g less its condition.            *)
comp_sig(f_sig, g_sig) ==
    compose(f_sig, [args |-> g_sig.args,
                    outputs |-> g_sig.outputs + copy_count(g_sig) - 1])

(* Lines 86-88: count pushes of stack[len - count], len growing with every *)
(* push; len - count below 0 is an index outside the stack.                *)
RECURSIVE push_copies(_, _, _)
push_copies(st, count, k) ==
    IF k = 0 THEN [ok |-> TRUE, stack |-> st]
    ELSE IF Len(st) - count < 0 THEN [ok |-> FALSE, stack |-> st]
    ELSE push_copies(Append(st, st[Len(st) - count + 1]), count, k - 1)

(* The loop that calls f after g whatever the condition is.                *)
RECURSIVE do_loop_ignore_cond(_, _, _, _, _, _)
do_loop_ignore_cond(f, g, st, fuel, calls, fl) ==
    IF fuel = 0 THEN [status |-> "running", stack |-> st, calls |-> calls]
    ELSE LET p == push_copies(st, copy_count(Sig(g)), copy_count(Sig(g)))
             cg == Call(g, p.stack, fl)
             cf == Call(f, Pop(cg.stack), cg.fill)
         IN IF ~p.ok THEN [status |-> "panic", stack |-> p.stack, calls |-> calls]
            ELSE IF ~cg.ok
            THEN [status |-> "call_error", stack |-> cg.stack,
                  calls |-> Append(calls, cg.log)]
            ELSE IF Len(cg.stack) = 0
            THEN [status |-> "underflow", stack |-> cg.stack,
                  calls |-> Append(calls, cg.log)]
            ELSE IF ~as_bool_ok(Top(cg.stack))
            THEN [status |-> "domain", stack |-> Pop(cg.stack),
                  calls |-> Append(calls, cg.log)]
            ELSE IF ~cf.ok
            THEN [status |-> "call_error", stack |-> cf.stack,
                  calls |-> Append(Append(calls, cg.log), cf.log)]
            ELSE do_loop_ignore_cond(f, g, cf.stack, fuel - 1,
                                     Append(Append(calls, cg.log), cf.log), cf.fill)

(* Lines 85-97: the loop; a loop that has not stopped after fuel           *)
(* iterations is reported as still running.                                *)
RECURSIVE do_loop(_, _, _, _, _, _)
do_loop(f, g, st, fuel, calls, fl) ==
    IF fuel = 0 THEN [status |-> "running", stack |-> st, calls |-> calls]
    ELSE LET p == push_copies(st, copy_count(Sig(g)), copy_count(Sig(g)))
             cg == Call(g, p.stack, fl)
             cf == Call(f, Pop(cg.stack), cg.fill)
         IN IF ~p.ok THEN [status |-> "panic", stack |-> p.stack, calls |-> calls]
            ELSE IF ~cg.ok
            THEN [status |-> "call_error", stack |-> cg.stack,
                  calls |-> Append(calls, cg.log)]
            ELSE IF Len(cg.stack) = 0
            THEN [status |-> "underflow", stack |-> cg.stack,
                  calls |-> Append(calls, cg.log)]
            ELSE IF ~as_bool_ok(Top(cg.stack))
            THEN [status |-> "domain", stack |-> Pop(cg.stack),
                  calls |-> Append(calls, cg.log)]
            ELSE IF Top(cg.stack).data[1] = 0
            THEN [status |-> "ok", stack |-> Pop(cg.stack),
                  calls |-> Append(calls, cg.log)]
            ELSE IF ~cf.ok
            THEN [status |-> "call_error", stack |-> cf.stack,
                  calls |-> Append(Append(calls, cg.log), cf.log)]
            ELSE do_loop(f, g, cf.stack, fuel - 1,
                         Append(Append(calls, cg.log), cf.log), cf.fill)

(* The signature test that does not look at the composed signature.        *)
do_sig_error_outputs_only(f_sig, g_sig) == g_sig.outputs < 1

(* Lines 69-84: the signatures do_ refuses.                                *)
do_sig_error(f_sig, g_sig) ==
    \/ g_sig.outputs < 1
    \/ comp_sig(f_sig, g_sig).args # comp_sig(f_sig, g_sig).outputs

do_(st, fs, fl) ==
    IF Len(fs) = 0 THEN Res("underflow", st, fs, <<>>, <<>>)
    ELSE IF Len(fs) = 1 THEN Res("underflow", st, Pop(fs), <<>>, <<>>)
    ELSE LET f == Top(fs)
             g == Top(Pop(fs))
             fs2 == Pop(Pop(fs))
         IN IF do_sig_error(Sig(f), Sig(g)) THEN Res("signature", st, fs2, <<>>, <<>>)
            ELSE LET r == do_loop(f, g, st, MaxDo, <<>>, fl)
                 IN Res(r.status, r.stack, fs2, <<>>, r.calls)

(* ---------------------------------------------------------------------- *)
(* array.rs: the Array container                                           *)
(* ---------------------------------------------------------------------- *)
(* An Array is a record [ty, shape, data]: ty is "Num", "Char" or "Value"; *)
(* the data of a Num array are numbers, of a Char array code points, of a  *)
(* Value array records [t, v] with t "num", "char" or "fn".                *)
Array(ty, shape, data) == [ty |-> ty, shape |-> shape, data |-> data]

VNum(x) == [t |-> "num", v |-> x]

VChar(c) == [t |-> "char", v |-> c]

VFn == [t |-> "fn", v |-> 0]

is_char(e) == e.t = "char"

is_num(e) == e.t = "num"

(* Lines 39-44.                                                            *)
len(a) == IF Len(a.shape) = 0 THEN 0 ELSE a.shape[1]

is_empty(a) == len(a) = 0

(* Lines 407-429: an array from a scalar.                                  *)
from_scalar(ty, x) == Array(ty, <<>>, <<x>>)

(* Lines 472-494: a list from a vector of numbers or of characters.        *)
from_vec(ty, v) == Array(ty, <<Len(v)>>, v)

(* Lines 461-470: the array of the data, its shape replaced by the shape   *)
(* given.                                                                  *)
from_shape_data(shape, a) == [a EXCEPT !.shape = shape]

(* normalize with the test for numbers before the test for characters.    *)
normalize_num_first(a) ==
    IF a.ty # "Value" THEN a
    ELSE IF \A i \in 1..Len(a.data) : is_num(a.data[i])
    THEN [from_vec("Num", [i \in 1..Len(a.data) |-> a.data[i].v])
             EXCEPT !.shape = a.shape]
    ELSE IF \A i \in 1..Len(a.data) : is_char(a.data[i])
    THEN [from_vec("Char", [i \in 1..Len(a.data) |-> a.data[i].v])
             EXCEPT !.shape = a.shape]
    ELSE a

(* Lines 92-108; all() is true of an empty sequence.                       *)
normalize(a) ==
    IF a.ty # "Value" THEN a
    ELSE IF \A i \in 1..Len(a.data) : is_char(a.data[i])
    THEN [from_vec("Char", [i \in 1..Len(a.data) |-> a.data[i].v])
             EXCEPT !.shape = a.shape]
    ELSE IF \A i \in 1..Len(a.data) : is_num(a.data[i])
    THEN [from_vec("Num", [i \in 1..Len(a.data) |-> a.data[i].v])
             EXCEPT !.shape = a.shape]
    ELSE a

(* Lines 508-519: a list from a vector of values, normalized.              *)
from_values(v) == normalize(Array("Value", <<Len(v)>>, v))

(* Lines 521-524: the values collected into a vector, and the array of    *)
(* that vector.                                                            *)
from_iter(v) == from_values(v)

(* Lines 455-459: the array of the vector of the one value, normalized.    *)
from_value(e) == normalize(from_values(<<e>>))

(* Lines 109-112.                                                          *)
deshape(a) == [a EXCEPT !.shape = <<Prod(a.shape)>>]

(* The default element of each type, and force_length: the data cut to n   *)
(* elements or padded with the default to n elements.                      *)
DefaultOf(ty) == IF ty = "Value" THEN VNum(0) ELSE 0

force_length(data, n, ty) ==
    [i \in 1..n |-> IF i <= Len(data) THEN data[i] ELSE DefaultOf(ty)]

(* Lines 113-121.                                                          *)
reshape(a, shape) == Array(a.ty, shape, force_length(a.data, Prod(shape), a.ty))

(* The order of the elements: numbers and code points by size, values by   *)
(* kind and then by content.                                               *)
KeyOf(ty, e) ==
    IF ty # "Value" THEN e
    ELSE (IF e.t = "num" THEN 0 ELSE IF e.t = "char" THEN 100 ELSE 200) + e.v

RECURSIVE RowLess(_, _, _)
RowLess(ty, r, q) ==
    IF Len(r) = 0 \/ Len(q) = 0 THEN FALSE
    ELSE IF KeyOf(ty, r[1]) # KeyOf(ty, q[1]) THEN KeyOf(ty, r[1]) < KeyOf(ty, q[1])
    ELSE RowLess(ty, Tail(r), Tail(q))

RECURSIVE InsertRow(_, _, _)
InsertRow(ty, row, sorted) ==
    IF Len(sorted) = 0 THEN <<row>>
    ELSE IF RowLess(ty, row, sorted[1]) THEN <<row>> \o sorted
    ELSE <<sorted[1]>> \o InsertRow(ty, row, Tail(sorted))

RECURSIVE SortRows(_, _)
SortRows(ty, rows) ==
    IF Len(rows) = 0 THEN <<>>
    ELSE InsertRow(ty, rows[Len(rows)], SortRows(ty, SubSeq(rows, 1, Len(rows) - 1)))

(* sort_array: the rows of the data, sorted, stably; data that are not a   *)
(* whole number of rows are left as they are.                              *)
sort_array(shape, data, ty) ==
    IF Len(shape) = 0 \/ Prod(Tail(shape)) = 0 \/ Len(data) % Prod(Tail(shape)) # 0
    THEN data
    ELSE Flatten(SortRows(ty,
             [i \in 1..(Len(data) \div Prod(Tail(shape))) |->
                 SubSeq(data, (i - 1) * Prod(Tail(shape)) + 1, i * Prod(Tail(shape)))]))

(* Lines 78-88.                                                            *)
sort(a) == [a EXCEPT !.data = sort_array(a.shape, a.data, a.ty)]

(* ---------------------------------------------------------------------- *)
(* array.rs: the pervasive binary operations                               *)
(* ---------------------------------------------------------------------- *)
Comparisons == {"is_eq", "is_ne", "is_lt", "is_le", "is_gt", "is_ge"}

Ops == {"add", "sub", "mul", "div", "modulus", "pow", "atan2"} \cup Comparisons

(* Lines 154-185: the pairs of element types each operation is written     *)
(* for.                                                                    *)
Table(op) ==
    IF op = "add" THEN {<<"Num", "Num">>, <<"Num", "Char">>, <<"Char", "Num">>}
    ELSE IF op = "sub" THEN {<<"Num", "Num">>, <<"Char", "Num">>}
    ELSE IF op \in Comparisons THEN {<<"Num", "Num">>, <<"Char", "Char">>}
    ELSE {<<"Num", "Num">>}

(* Lines 89-91: zip stops at the shorter shape.                            *)
shape_prefix_matches(a, b) ==
    \A i \in 1..(IF Len(a.shape) <= Len(b.shape) THEN Len(a.shape) ELSE Len(b.shape)) :
        a.shape[i] = b.shape[i]

(* An element as a value: the element of a Num or Char array becomes the   *)
(* value of that number or character (b.clone().into() of lines 141, 145). *)
Lift(ty, e) ==
    IF ty = "Value" THEN e
    ELSE [t |-> IF ty = "Num" THEN "num" ELSE "char", v |-> e]

TypeOf(e) == IF e.t = "num" THEN "Num" ELSE IF e.t = "char" THEN "Char" ELSE "Value"

(* The operation on two elements: the term op(x, y), a character when the  *)
(* operation offsets a character and a number otherwise; the elements the  *)
(* table of the operation does not list are rejected.                      *)
Accepts(op, x, y) == <<TypeOf(x), TypeOf(y)>> \in Table(op)

Apply(op, x, y) ==
    [t |-> IF op \notin Comparisons /\ "char" \in {x.t, y.t} THEN "char" ELSE "num",
     v |-> <<op, x.v, y.v>>]

Failed(err) == [ok |-> FALSE, err |-> err]

LongerShape(ash, bsh) == IF Len(ash) >= Len(bsh) THEN ash ELSE bsh

(* The pairs of elements the operation is applied to: pair i of the result *)
(* takes the elements of both data, each repeated cyclically.              *)
Pairs(a, b, n) ==
    [i \in 1..n |-> <<Lift(a.ty, a.data[((i - 1) % Len(a.data)) + 1]),
                      Lift(b.ty, b.data[((i - 1) % Len(b.data)) + 1])>>]

Pervaded(op, a, b, shape) ==
    IF Prod(shape) > 0 /\ (Len(a.data) = 0 \/ Len(b.data) = 0)
    THEN Failed("panic")
    ELSE [ok |-> TRUE, shape |-> shape,
          data |-> [i \in 1..Prod(shape) |->
                       Apply(op, Pairs(a, b, Prod(shape))[i][1],
                                 Pairs(a, b, Prod(shape))[i][2])]]

(* pervade: it returns a shape and data and has no error to return; what   *)
(* it does with two shapes of which neither is a prefix of the other is    *)
(* the outcome c, a panic or a result computed all the same.               *)
pervade(op, a, b, c) ==
    IF ~shape_prefix_matches(a, b) /\ c = "panic" THEN Failed("panic")
    ELSE Pervaded(op, a, b, LongerShape(a.shape, b.shape))

(* pervade_fallible: the shapes are checked, and the first element pair    *)
(* the operation on values rejects ends the operation with its error.      *)
pervade_fallible(op, a, b) ==
    IF ~shape_prefix_matches(a, b) THEN Failed("ShapeMismatch")
    ELSE IF Prod(LongerShape(a.shape, b.shape)) > 0
            /\ (Len(a.data) = 0 \/ Len(b.data) = 0)
    THEN Failed("panic")
    ELSE IF \E i \in 1..Prod(LongerShape(a.shape, b.shape)) :
                ~Accepts(op, Pairs(a, b, Prod(LongerShape(a.shape, b.shape)))[i][1],
                             Pairs(a, b, Prod(LongerShape(a.shape, b.shape)))[i][2])
    THEN Failed("TypeMismatch")
    ELSE Pervaded(op, a, b, LongerShape(a.shape, b.shape))

(* .into() of lines 135-145: the array of the data (numbers or characters  *)
(* as they are, values normalized), with the shape of the result.          *)
into_typed(r, ty) ==
    IF ~r.ok THEN r
    ELSE [ok |-> TRUE,
          array |-> from_shape_data(r.shape,
              from_vec(ty, [i \in 1..Len(r.data) |-> r.data[i].v]))]

into_values(r) ==
    IF ~r.ok THEN r
    ELSE [ok |-> TRUE, array |-> from_shape_data(r.shape, from_values(r.data))]

(* The operation with the shape of its first operand for the result.       *)
binary_self_shape(op, a, b, c) == into_typed(Pervaded(op, a, b, a.shape), a.ty)

(* Lines 131-149: the operation op of an array on another.                 *)
binary(op, a, b, c) ==
    IF <<a.ty, b.ty>> \in Table(op)
    THEN into_typed(pervade(op, a, b, c),
                    IF op \notin Comparisons /\ "Char" \in {a.ty, b.ty}
                    THEN "Char" ELSE "Num")
    ELSE IF a.ty = "Value" /\ b.ty = "Value" THEN into_values(pervade_fallible(op, a, b))
    ELSE IF a.ty = "Value" /\ b.ty \in {p[2] : p \in Table(op)}
    THEN into_values(pervade_fallible(op, a, b))
    ELSE IF b.ty = "Value" /\ a.ty \in {p[1] : p \in Table(op)}
    THEN into_values(pervade_fallible(op, a, b))
    ELSE Failed("TypeMismatch")

(* ---------------------------------------------------------------------- *)
(* The inputs of the model                                                 *)
(* ---------------------------------------------------------------------- *)
Markers == {-1, 0, 1, 2, ISizeMax}

Indices == -1..MaxIndex

(* The values arrays: n rows that are scalars or pairs, every element      *)
(* different, so that a misplaced row shows.                               *)
ListOf(n) == Num(<<n>>, [i \in 1..n |-> 10 * i])

TableOf(n) == Num(<<n, 2>>, [i \in 1..(2 * n) |-> 10 * i])

Square == Num(<<2, 2>>, <<10, 20, 30, 40>>)

ValuesOf(n) == {ListOf(n), TableOf(n)} \cup (IF n = 1 THEN {Scalar(10)} ELSE {})

MarkerLists(n) == {Num(<<n>>, m) : m \in [1..n -> Markers]}

IndexLists(n) == {Num(<<n>>, m) : m \in [1..n -> Indices]}

IndexSquares == {Num(<<2, 2>>, m) : m \in [1..4 -> Indices]}

(* The transformed arrays handed to the second half of an inverse: a list  *)
(* of boxed groups, group g holding lens[g] rows 100 * g + 1, ...          *)
GroupOf(g, n) == Num(<<n>>, [j \in 1..n |-> 100 * g + j])

Transformed(lens) == from_iter_boxed([g \in 1..Len(lens) |-> GroupOf(g, lens[g])])

TransformedArrays ==
    UNION {{Transformed(lens) : lens \in [1..k -> 0..MaxGroupLen]} : k \in 0..MaxGroups}

(* The arrays handed to the first half of an inverse: n rows, row i the    *)
(* number 10 * i, which the callables with a limit reject, or -i, which    *)
(* they accept.                                                            *)
RowsOf(n) ==
    {Num(<<n>>, [i \in 1..n |-> IF i \in S THEN 10 * i ELSE 0 - i]) : S \in SUBSET (1..n)}

Counts ==
    {Scalar(n) : n \in -1..MaxCount} \cup {Infinity(1), Infinity(-1), NaN}
        \cup {Half(h) : h \in {-1, 1, 3}}

PartitionRoundTrip == <<"partition", "unpartition_part1", "unpartition_part2">>

GroupRoundTrip == <<"group", "ungroup_part1", "ungroup_part2">>

NoLast == [op |-> "none", stack |-> <<>>, fstack |-> <<>>, fill |-> NoFill,
           groups |-> <<>>, calls |-> <<>>]

(* The fill values a run starts under, and the stacks do_ starts from.     *)
Fills == {NoFill, <<Scalar(5)>>}

DoStacks ==
    {<<>>} \cup {<<Scalar(b)>> : b \in {0, 1, 8}}
        \cup {<<Scalar(7), Scalar(b)>> : b \in {0, 1, 8}}

(* The shapes, element vectors and value vectors arrays are made from.     *)
Shapes == UNION {[1..k -> 0..MaxDim] : k \in 0..2}

ElemVecs == UNION {[1..k -> 1..2] : k \in 0..MaxData}

ValueVecs == UNION {[1..k -> {VNum(1), VChar(1), VFn}] : k \in 0..MaxData}

(* The second operands of the pervasive operations, and what pervade does  *)
(* outside its domain.                                                     *)
Others ==
    <<from_scalar("Num", 1), from_scalar("Char", 2),
     from_vec("Num", <<1, 2>>), from_vec("Char", <<2, 1>>), from_vec("Char", <<>>),
     from_shape_data(<<2, 2>>, from_vec("Num", <<1, 2, 2, 1>>)),
     from_values(<<VNum(1), VChar(2)>>), from_values(<<VFn, VNum(2)>>),
     reshape(from_values(<<VNum(1), VChar(2)>>), <<0>>)>>

Outcomes == {"panic", "wrap"}

NoArrayOp == [op |-> "none", before |-> from_scalar("Num", 0), result |-> 0]

Start(p, st, fs, fl) ==
    /\ prog = p
    /\ stack = st
    /\ fstack = fs
    /\ fill = fl
    /\ scen = [prog |-> p, stack |-> st, fstack |-> fs, fill |-> fl]
    /\ array = from_scalar("Num", 0)
    /\ alast = NoArrayOp

Init ==
    /\ status = "ok"
    /\ last = NoLast
    /\ \/ \E n \in 0..MaxRows : \E V \in ValuesOf(n) : \E M \in MarkerLists(n) :
              Start(PartitionRoundTrip, <<V, M, V, M>>, <<"id", "id">>, NoFill)
       \/ \E n \in 0..MaxRows : \E V \in {ListOf(n), TableOf(n)} :
          \E M \in MarkerLists(n) : \E U \in TransformedArrays :
              Start(<<"unpartition_part2">>, <<V, M, U>>, <<>>, NoFill)
       \/ \E n \in 0..MaxRows : \E V \in {ListOf(n), TableOf(n)} :
          \E I \in IndexLists(n) :
              Start(GroupRoundTrip, <<V, I, V, I>>, <<"id", "id">>, NoFill)
       \/ \E I \in IndexSquares :
              Start(GroupRoundTrip, <<Square, I, Square, I>>, <<"id", "id">>, NoFill)
       \/ \E n \in 0..MaxRows : \E I \in IndexLists(n) : \E U \in TransformedArrays :
              Start(<<"ungroup_part2">>, <<ListOf(n), I, U>>, <<>>, NoFill)
       \/ \E I \in IndexSquares : \E U \in TransformedArrays :
              Start(<<"ungroup_part2">>, <<Square, I, U>>, <<>>, NoFill)
       \/ \E x \in 0..1 : \E c \in Counts : \E f \in Funcs :
              Start(<<"repeat">>, <<Scalar(7), Scalar(x), c>>, <<f>>, NoFill)
       \/ \E n \in 0..MaxRows : \E M \in MarkerLists(n) : \E f \in Funcs :
          \E fl \in Fills :
              Start(<<"partition">>, <<Scalar(7), ListOf(n), M>>, <<f>>, fl)
       \/ \E n \in 0..MaxRows : \E I \in IndexLists(n) : \E f \in Funcs :
          \E fl \in Fills :
              Start(<<"group">>, <<Scalar(7), ListOf(n), I>>, <<f>>, fl)
       \/ \E st \in DoStacks : \E f \in Funcs : \E g \in Funcs :
              Start(<<"do">>, st, <<g, f>>, NoFill)
       \/ \E n \in 0..MaxRows : \E V \in RowsOf(n) \cup TransformedArrays :
          \E f \in Funcs : \E p \in {"unpartition_part1", "ungroup_part1"} :
              Start(<<p>>, <<Scalar(7), V>>, <<f>>, NoFill)

(* ---------------------------------------------------------------------- *)
(* The interpreter: one action per primitive                               *)
(* ---------------------------------------------------------------------- *)
Runs(name) == status = "ok" /\ Len(prog) > 0 /\ Head(prog) = name

Finish(name, r) ==
    /\ stack' = r.stack
    /\ fstack' = r.fstack
    /\ status' = r.status
    /\ prog' = Tail(prog)
    /\ fill' = IF "fill" \in DOMAIN r THEN r.fill ELSE fill
    /\ last' = [op |-> name, stack |-> stack, fstack |-> fstack, fill |-> fill,
                groups |-> r.groups, calls |-> r.calls]
    /\ UNCHANGED <<scen, array, alast>>

Partition == Runs("partition") /\ Finish("partition", partition(stack, fstack, fill))

UnpartitionPart1 ==
    Runs("unpartition_part1")
    /\ Finish("unpartition_part1", unpartition_part1(stack, fstack, fill))

UnpartitionPart2 ==
    Runs("unpartition_part2")
    /\ Finish("unpartition_part2", unpartition_part2(stack, fstack))

Group == Runs("group") /\ Finish("group", group(stack, fstack, fill))

UngroupPart1 ==
    Runs("ungroup_part1") /\ Finish("ungroup_part1", ungroup_part1(stack, fstack, fill))

UngroupPart2 ==
    Runs("ungroup_part2") /\ Finish("ungroup_part2", ungroup_part2(stack, fstack))

Repeat == Runs("repeat") /\ Finish("repeat", repeat(stack, fstack, fill))

Do == Runs("do") /\ Finish("do", do_(stack, fstack, fill))

Next ==
    \/ Partition
    \/ UnpartitionPart1
    \/ UnpartitionPart2
    \/ Group
    \/ UngroupPart1
    \/ UngroupPart2
    \/ Repeat
    \/ Do

Spec == Init /\ [][Next]_vars

(* ---------------------------------------------------------------------- *)
(* The arrays: one action per constructor and operation of array.rs        *)
(* ---------------------------------------------------------------------- *)
ArrayInit ==
    /\ status = "ok"
    /\ last = NoLast
    /\ Start(<<>>, <<>>, <<>>, NoFill)

ArrayOp(name, a, result) ==
    /\ array' = a
    /\ alast' = [op |-> name, before |-> array, result |-> result]
    /\ UNCHANGED <<stack, fstack, fill, status, prog, last, scen>>

(* An array is constructed once, by one of the constructors, and then      *)
(* operated on.                                                            *)
Unbuilt == alast.op = "none"

FromScalar == \E ty \in {"Num", "Char"} : \E x \in 1..2 :
    Unbuilt /\ ArrayOp("from_scalar", from_scalar(ty, x), 0)

FromShapeData == \E shape \in Shapes : \E ty \in {"Num", "Char"} : \E v \in ElemVecs :
    Unbuilt /\ ArrayOp("from_shape_data", from_shape_data(shape, from_vec(ty, v)), 0)

FromValues == \E v \in ValueVecs :
    Unbuilt /\ ArrayOp("from_values", from_values(v), v)

FromIter == \E v \in ValueVecs :
    Unbuilt /\ ArrayOp("from_iter", from_iter(v), v)

FromValue == \E e \in {VNum(1), VChar(1), VFn} :
    Unbuilt /\ ArrayOp("from_value", from_value(e), <<e>>)

Reshape == \E shape \in Shapes :
    ~Unbuilt /\ ArrayOp("reshape", reshape(array, shape), 0)

Deshape == ~Unbuilt /\ ArrayOp("deshape", deshape(array), 0)

SortArray == ~Unbuilt /\ ArrayOp("sort", sort(array), 0)

Normalize == ~Unbuilt /\ ArrayOp("normalize", normalize(array), 0)

LenOf == ~Unbuilt /\ ArrayOp("len", array, len(array))

IsEmpty == ~Unbuilt /\ ArrayOp("is_empty", array, is_empty(array))

ArrayNext ==
    \/ FromScalar
    \/ FromShapeData
    \/ FromValues
    \/ FromIter
    \/ FromValue
    \/ Reshape
    \/ Deshape
    \/ SortArray
    \/ Normalize
    \/ LenOf
    \/ IsEmpty

ArraySpec == ArrayInit /\ [][ArrayNext]_vars

(* ---------------------------------------------------------------------- *)
(* The pervasive operations: an operation of array.rs applied to an array  *)
(* and a second operand                                                    *)
(* ---------------------------------------------------------------------- *)
PervadeInit ==
    /\ status = "ok"
    /\ last = NoLast
    /\ prog = <<>>
    /\ stack = <<>>
    /\ fstack = <<>>
    /\ fill = NoFill
    /\ scen = [prog |-> <<>>, stack |-> <<>>, fstack |-> <<>>, fill |-> NoFill]
    /\ alast = NoArrayOp
    /\ \/ \E shape \in Shapes : \E ty \in {"Num", "Char"} : \E v \in ElemVecs :
              array = from_shape_data(shape, from_vec(ty, v))
       \/ \E ty \in {"Num", "Char"} : \E x \in 1..2 : array = from_scalar(ty, x)
       \/ \E v \in ValueVecs : array = from_values(v)
       \/ \E v \in ValueVecs : \E shape \in Shapes : array = reshape(from_values(v), shape)

Pervasive == \E op \in Ops : \E k \in 1..Len(Others) : \E c \in Outcomes :
    Unbuilt /\ ArrayOp(op, array, [other |-> Others[k],
                                   out |-> binary(op, array, Others[k], c)])

PervadeNext == Pervasive

PervadeSpec == PervadeInit /\ [][PervadeNext]_vars

Halted == status # "ok" \/ Len(prog) = 0

(* ---------------------------------------------------------------------- *)
(* What the claims speak of                                                *)
(* ---------------------------------------------------------------------- *)
(* The k-th operand of the handler that ran last, counted from the top of  *)
(* the stack it started from (Operand(1) is the top).                      *)
Operand(k) == last.stack[Len(last.stack) + 1 - k]

(* The stack below the k operands the handler popped.                      *)
Below(k) == SubSeq(last.stack, 1, Len(last.stack) - k)

RowShape(v) == IF v.shape = <<>> THEN <<>> ELSE Tail(v.shape)

(* The data of rows p..q of v.                                             *)
RowsData(v, p, q) == SubSeq(v.data, (p - 1) * row_len(v) + 1, q * row_len(v))

(* A run of markers m starts at p when p is first or follows a different   *)
(* marker; it ends at the last q from which back to p all markers agree.   *)
IsRunStart(m, p) == p = 1 \/ m[p - 1] # m[p]

RunEnd(m, p) ==
    CHOOSE q \in p..Len(m) :
        /\ \A r \in p..q : m[r] = m[p]
        /\ (q = Len(m) \/ m[q + 1] # m[p])

PositiveStarts(m) == {p \in 1..Len(m) : m[p] > 0 /\ IsRunStart(m, p)}

(* The number of the positive run that starts at p, counted from 1.        *)
RunNumber(m, p) == Cardinality({q \in PositiveStarts(m) : q <= p})

(* C1: partition_groups returns, in order, one group per maximal run of    *)
(* adjacent rows with the same positive marker, holding that run's rows.   *)
C1_PartitionGroupsAreRuns ==
    last.op = "partition" =>
        LET V == Operand(2)
            m == Operand(1).data
        IN /\ status # "panic"
           /\ Len(last.groups) = Cardinality(PositiveStarts(m))
           /\ \A p \in PositiveStarts(m) :
                 LET g == last.groups[RunNumber(m, p)]
                     q == RunEnd(m, p)
                 IN /\ g.shape = <<q - p + 1>> \o RowShape(V)
                    /\ g.data = RowsData(V, p, q)

(* C2: partition with identity, then unpartition_part1 with identity and   *)
(* unpartition_part2, ends with the values array V on the stack.           *)
C2_PartitionRoundTrip ==
    (scen.prog = PartitionRoundTrip /\ Halted) =>
        /\ status = "ok"
        /\ Len(prog) = 0
        /\ Len(stack) = 1
        /\ ValEq(stack[1], scen.stack[1])

(* C3: group with identity, then ungroup_part1 with identity and           *)
(* ungroup_part2, ends with the values array V on the stack, shape and     *)
(* slices as they were.                                                    *)
C3_GroupRoundTrip ==
    (scen.prog = GroupRoundTrip /\ Halted) =>
        /\ status = "ok"
        /\ Len(prog) = 0
        /\ Len(stack) = 1
        /\ ValEq(stack[1], scen.stack[1])

(* The slice of v at flat position p of an index array of rank r: the      *)
(* elements of v under the first r dimensions.                             *)
SliceShape(v, r) == SubSeq(v.shape, r + 1, Len(v.shape))

SliceData(v, r, p) ==
    SubSeq(v.data, (p - 1) * Prod(SliceShape(v, r)) + 1, p * Prod(SliceShape(v, r)))

(* The data of the slices of v whose index is i, in the order of their     *)
(* positions from p on.                                                    *)
RECURSIVE SlicesWithIndex(_, _, _, _)
SlicesWithIndex(v, indices, i, p) ==
    IF p > Len(indices.data) THEN <<>>
    ELSE (IF indices.data[p] = i THEN SliceData(v, rank(indices), p) ELSE <<>>)
         \o SlicesWithIndex(v, indices, i, p + 1)

(* C4: group_groups puts the slice at each position with index i >= 0 into *)
(* groups[i] and nowhere else, in the order of the positions; a slice with *)
(* a negative index is in no group.                                        *)
C4_GroupGroupsByIndex ==
    (last.op = "group" /\ status # "signature") =>
        LET V == Operand(2)
            I == Operand(1)
        IN /\ status # "shape"
           /\ \A p \in 1..Len(I.data) : I.data[p] >= 0 => I.data[p] < Len(last.groups)
           /\ \A g \in 1..Len(last.groups) :
                 /\ last.groups[g].data = SlicesWithIndex(V, I, g - 1, 1)
                 /\ last.groups[g].data # <<>> =>
                        last.groups[g].shape =
                            <<Cardinality({p \in 1..Len(I.data) : I.data[p] = g - 1})>>
                            \o SliceShape(V, rank(I))

C4_Witness ==
    /\ last.op = "group"
    /\ rank(Operand(1)) = 2
    /\ Operand(1).data = <<1, -1, 0, 1>>
    /\ Len(last.groups) = 2
    /\ last.groups[2].data = <<10, 40>>

(* C5: group_groups returns max(index) + 1 groups, the maximum taken over  *)
(* the non-negative indices, and no group when no index is non-negative.   *)
C5_GroupCount ==
    last.op = "group" =>
        LET idx == Operand(1).data
            nonneg == {idx[p] : p \in {q \in 1..Len(idx) : idx[q] >= 0}}
        IN Len(last.groups) =
               IF nonneg = {} THEN 0
               ELSE (CHOOSE x \in nonneg : \A y \in nonneg : y <= x) + 1

(* The g-th group of a transformed array U, unboxed.                       *)
GroupAt(U, g) == unboxed(RowAt(U, g))

(* C6: in unpartition_part2 the rows of the next transformed group replace *)
(* a positive run's rows one for one: a group whose row count differs from *)
(* its run's length gives an error and no result, so a result has as many  *)
(* rows as the original.                                                   *)
C6_UnpartitionRowCounts ==
    last.op = "unpartition_part2" =>
        LET original == Operand(3)
            m == Operand(2).data
            U == Operand(1)
            mismatch ==
                \E p \in PositiveStarts(m) :
                    /\ RunNumber(m, p) <= row_count(U)
                    /\ row_count(GroupAt(U, RunNumber(m, p))) # RunEnd(m, p) - p + 1
        IN /\ mismatch => (status \notin {"ok", "panic"} /\ SeqValEq(stack, Below(3)))
           /\ status = "ok" => row_count(Top(stack)) = row_count(original)

(* What unpartitioning leaves from position p on: at the start of a        *)
(* positive run the rows of that run's group, at a position with a marker  *)
(* <= 0 the original row.                                                  *)
RECURSIVE ExpectedUnpartition(_, _, _, _)
ExpectedUnpartition(original, m, U, p) ==
    IF p > Len(m) THEN <<>>
    ELSE (IF m[p] <= 0 THEN RowsData(original, p, p)
          ELSE IF IsRunStart(m, p) THEN GroupAt(U, RunNumber(m, p)).data
          ELSE <<>>)
         \o ExpectedUnpartition(original, m, U, p + 1)

(* C7: unpartition_part2 gives its row-count error, pushing nothing,       *)
(* exactly when the number of positive runs differs from the row count of  *)
(* the transformed array; otherwise a result takes one group per positive  *)
(* run, in order.                                                          *)
C7_UnpartitionGroupCount ==
    last.op = "unpartition_part2" =>
        LET original == Operand(3)
            m == Operand(2).data
            U == Operand(1)
        IN /\ status = "rows_changed" <=>
                  Cardinality(PositiveStarts(m)) # row_count(U)
           /\ status = "rows_changed" => SeqValEq(stack, Below(3))
           /\ status = "ok" =>
                  /\ Len(stack) = Len(last.stack) - 2
                  /\ Top(stack).data = ExpectedUnpartition(original, m, U, 1)

C7_Witness ==
    /\ last.op = "unpartition_part2"
    /\ status = "ok"
    /\ Operand(2).data = <<1, 0, 1>>
    /\ Top(stack).data = <<101, 102, 20, 201>>

(* How often index g occurs among the first p indices.                     *)
Occurrences(idx, g, p) == Cardinality({q \in 1..p : idx[q] = g})

(* Every non-negative index names a group of U, and no group is asked for  *)
(* more rows than it has.                                                  *)
GroupsSuffice(idx, U) ==
    \A p \in 1..Len(idx) :
        idx[p] >= 0 =>
            /\ idx[p] < row_count(U)
            /\ Occurrences(idx, idx[p], Len(idx)) <= row_count(GroupAt(U, idx[p] + 1))

(* C8: ungroup_part2 gives, at each non-negative index i, the next row of  *)
(* group i not yet drawn; an index that finds its group used up, or names  *)
(* no group, gives an error and no result.                                 *)
C8_UngroupDrawsRows ==
    last.op = "ungroup_part2" =>
        LET I == Operand(2)
            idx == Operand(2).data
            U == Operand(1)
        IN /\ ~GroupsSuffice(idx, U) =>
                  /\ status \in {"group_len_changed", "group_modified"}
                  /\ SeqValEq(stack, Below(3))
           /\ status = "ok" =>
                  \A p \in 1..Len(idx) :
                      idx[p] >= 0 =>
                          SliceData(Top(stack), rank(I), p) =
                              RowsData(GroupAt(U, idx[p] + 1),
                                       Occurrences(idx, idx[p], p),
                                       Occurrences(idx, idx[p], p))

(* C9: for indices of rank >= 1 whose shape is a prefix of the original's, *)
(* ungroup_part2 leaves at each negative index the original's slice at     *)
(* that position, and the result has the original's shape.                 *)
C9_UngroupKeepsNegative ==
    (/\ last.op = "ungroup_part2"
     /\ rank(Operand(2)) >= 1
     /\ starts_with(Operand(3).shape, Operand(2).shape)
     /\ GroupsSuffice(Operand(2).data, Operand(1))) =>
        LET original == Operand(3)
            I == Operand(2)
        IN /\ status = "ok"
           /\ Top(stack).shape = original.shape
           /\ \A p \in 1..Len(I.data) :
                  I.data[p] < 0 =>
                      SliceData(Top(stack), rank(I), p) = SliceData(original, rank(I), p)

(* How many calls of f succeed one after another from the number x.        *)
Min2(a, b) == IF a <= b THEN a ELSE b

GoodCalls(f, x, n) == IF f = "lim" THEN Min2(n, Max2(0, Limit - x)) ELSE n

(* C10: for a finite count n >= 0 repeat calls f n times in sequence, not  *)
(* at all when n = 0, and stops with the error of the first failing call.  *)
C10_RepeatFinite ==
    (last.op = "repeat" /\ Operand(1).kind = "num" /\ Operand(1).data[1] >= 0) =>
        LET n == Operand(1).data[1]
            f == Top(last.fstack)
            x == Operand(2).data[1]
            good == GoodCalls(f, x, n)
            calls == last.calls
        IN /\ Len(calls) <= n
           /\ \A k \in 1..Len(calls) :
                 /\ calls[k].f = f
                 /\ SeqValEq(calls[k].stack,
                             IF k = 1 THEN Below(1) ELSE calls[k - 1].after)
                 /\ k < Len(calls) => calls[k].ok
           /\ SeqValEq(stack, IF Len(calls) = 0 THEN Below(1)
                              ELSE calls[Len(calls)].after)
           /\ IF \A k \in 1..Len(calls) : calls[k].ok
              THEN status = "ok" /\ Len(calls) = n
              ELSE status = "call_error"
           /\ f \in {"id", "inc", "lim"} =>
                 IF good = n
                 THEN /\ status = "ok"
                      /\ Len(last.calls) = n
                      /\ SeqValEq(stack,
                             Append(Below(2), Scalar(IF f = "id" THEN x ELSE x + n)))
                 ELSE /\ status = "call_error"
                      /\ Len(last.calls) = good + 1

C10_Witness ==
    /\ last.op = "repeat"
    /\ Operand(1).kind = "num"
    /\ Operand(1).data[1] = 3
    /\ status = "call_error"
    /\ Len(last.calls) = 2

(* ---------------------------------------------------------------------- *)
(* repeat: the count and the converging form                               *)
(* ---------------------------------------------------------------------- *)
(* The counts the specification accepts: the natural numbers and +infinity. *)
NaturalCount(c) ==
    \/ c.kind = "num" /\ c.data[1] >= 0
    \/ c.kind = "half" /\ c.data[1] >= 0 /\ c.data[1] % 2 = 0

AcceptedCount(c) == NaturalCount(c) \/ (c.kind = "inf" /\ c.data[1] = 1)

(* C11: repeat gives a domain error, calling f not once, for every count   *)
(* that is neither a natural number nor +infinity, and takes the           *)
(* converging form for no natural number.                                  *)
C11_RepeatCountDomain ==
    last.op = "repeat" =>
        /\ ~AcceptedCount(Operand(1)) => (status = "domain" /\ Len(last.calls) = 0)
        /\ NaturalCount(Operand(1)) => status \notin {"signature", "running"}

(* C12: with an infinite count repeat gives a signature error, having      *)
(* called f not once and popped nothing but the count, when f takes no     *)
(* argument or returns another number of values than it takes; otherwise   *)
(* it calls f.                                                             *)
C12_FixpointSignature ==
    (last.op = "repeat" /\ Operand(1).kind = "inf") =>
        LET sig == Sig(Top(last.fstack))
        IN IF sig.args = 0 \/ sig.args # sig.outputs
           THEN /\ status = "signature"
                /\ Len(last.calls) = 0
                /\ SeqValEq(stack, Below(1))
           ELSE /\ status # "signature"
                /\ Len(last.calls) >= 1

C12_Witness ==
    /\ last.op = "repeat"
    /\ Operand(1).kind = "inf"
    /\ Top(last.fstack) = "both"
    /\ status = "signature"
    /\ Len(stack) = 2

(* The stack after k calls of f in a row, and whether they all succeed.    *)
RECURSIVE OrbitStack(_, _, _)
OrbitStack(f, st, k) ==
    IF k = 0 THEN st ELSE Call(f, OrbitStack(f, st, k - 1), NoFill).stack

RECURSIVE OrbitOk(_, _, _)
OrbitOk(f, st, k) ==
    k = 0 \/ (OrbitOk(f, st, k - 1) /\ Call(f, OrbitStack(f, st, k - 1), NoFill).ok)

OrbitTop(f, st, k) == Top(OrbitStack(f, st, k))

(* The numbers k of calls after which the top of the stack is the value    *)
(* that was there before the k-th call.                                    *)
Fixes(f, st) ==
    {k \in 1..MaxIter : ValEq(OrbitTop(f, st, k), OrbitTop(f, st, k - 1))}

Least(S) == CHOOSE k \in S : \A j \in S : k <= j

(* C13: the converging repeat with a function that does not fail stops     *)
(* after the first call that leaves the value it found, having made just   *)
(* that many calls, with that value on top and the stack as deep as        *)
(* before; while no call has done so (here: within MaxIter calls) it goes  *)
(* on.                                                                     *)
C13_FixpointConverges ==
    (/\ last.op = "repeat"
     /\ Operand(1).kind = "inf"
     /\ ~(Sig(Top(last.fstack)).args = 0)
     /\ Sig(Top(last.fstack)).args = Sig(Top(last.fstack)).outputs
     /\ OrbitOk(Top(last.fstack), Below(1), MaxIter)) =>
        LET f == Top(last.fstack)
            fixes == Fixes(f, Below(1))
        IN IF fixes # {}
           THEN /\ status = "ok"
                /\ Len(last.calls) = Least(fixes)
                /\ SeqValEq(stack, OrbitStack(f, Below(1), Least(fixes)))
                /\ Len(stack) = Len(Below(1))
           ELSE /\ status = "running"
                /\ Len(last.calls) = MaxIter

C13_Witness ==
    /\ last.op = "repeat"
    /\ Operand(1).kind = "inf"
    /\ Top(last.fstack) = "sat"
    /\ Operand(2).data[1] = 0
    /\ status = "ok"
    /\ Len(last.calls) = Limit + 1
    /\ Top(stack).data[1] = Limit

(* ---------------------------------------------------------------------- *)
(* do_                                                                     *)
(* ---------------------------------------------------------------------- *)
TopN(st, n) == SubSeq(st, Len(st) - n + 1, Len(st))

DoF == last.fstack[Len(last.fstack)]

DoG == last.fstack[Len(last.fstack) - 1]

DoCopies == Max2(0, Sig(DoG).args - (Sig(DoG).outputs - 1))

DoComposed ==
    compose(Sig(DoF), [args |-> Sig(DoG).args,
                       outputs |-> Sig(DoG).outputs - 1 + DoCopies])

(* C14: do_ gives a signature error, having called neither function, when  *)
(* g returns no value or when f composed with g less its condition does    *)
(* not take as many values as it returns; otherwise it enters the loop.     *)
C14_DoSignature ==
    (last.op = "do" /\ Len(last.fstack) >= 2) =>
        IF Sig(DoG).outputs < 1 \/ DoComposed.args # DoComposed.outputs
        THEN /\ status = "signature"
             /\ Len(last.calls) = 0
             /\ SeqValEq(stack, last.stack)
        ELSE /\ status # "signature"
             /\ Len(last.calls) >= 1 \/ status = "panic"

C14_Witness ==
    /\ last.op = "do"
    /\ DoF = "both"
    /\ DoG = "lt"
    /\ status = "signature"
    /\ Len(last.calls) = 0

(* The condition a successful call of g left.                              *)
Cond(c) == Top(c.after)

IsCond(c, b) ==
    /\ c.ok
    /\ Len(c.after) > 0
    /\ Cond(c).kind = "num" /\ Cond(c).shape = <<>> /\ Cond(c).data[1] = b

(* C15: every iteration calls g on the stack with copies of its top        *)
(* copy_count values, in their order, pushed on it; on the condition 0 the *)
(* loop ends without a call of f, on 1 f is called on the stack less the   *)
(* condition and the loop goes on, on any other condition do_ gives a      *)
(* domain error; increment under "less than Ten" from 0 ends with Ten.     *)
C15_DoLoop ==
    (last.op = "do" /\ Len(last.fstack) >= 2 /\ status # "signature") =>
        LET c == last.calls
            n == Len(c)
        IN /\ \A k \in 1..n :
                 IF k % 2 = 1
                 THEN LET S == IF k = 1 THEN last.stack ELSE c[k - 1].after
                      IN /\ c[k].f = DoG
                         /\ SeqValEq(c[k].stack, S \o TopN(S, DoCopies))
                         /\ IsCond(c[k], 0) => (k = n /\ status = "ok")
                         /\ IsCond(c[k], 1) => k < n
                         /\ (c[k].ok /\ Len(c[k].after) > 0
                                /\ ~IsCond(c[k], 0) /\ ~IsCond(c[k], 1)) =>
                                (k = n /\ status = "domain")
                 ELSE /\ c[k].f = DoF
                      /\ IsCond(c[k - 1], 1)
                      /\ SeqValEq(c[k].stack, Pop(c[k - 1].after))
           /\ status = "ok" =>
                 /\ n % 2 = 1
                 /\ IsCond(c[n], 0)
                 /\ SeqValEq(stack, Pop(c[n].after))
           /\ (DoF = "inc" /\ DoG = "lt" /\ Len(last.stack) > 0
                  /\ ValEq(Top(last.stack), Scalar(0))) =>
                 /\ status = "ok"
                 /\ ValEq(Top(stack), Scalar(Ten))
                 /\ n = 2 * Ten + 1

C15_Witness ==
    /\ last.op = "do"
    /\ DoF = "inc"
    /\ DoG = "lt"
    /\ Len(last.stack) = 2
    /\ ValEq(Top(last.stack), Scalar(0))
    /\ status = "ok"
    /\ ValEq(Top(stack), Scalar(Ten))

(* ---------------------------------------------------------------------- *)
(* collapse_groups: the map form, the reduce form and the fill value       *)
(* ---------------------------------------------------------------------- *)
Collapsed == last.op \in {"partition", "group"} /\ Len(last.fstack) > 0

CollapseF == Top(last.fstack)

(* The groups of the operands are formed without an error.                 *)
GroupsFormed ==
    /\ Len(last.stack) >= 2
    /\ as_integer_array_ok(Operand(1))
    /\ get_groups(last.op, Operand(2), Operand(1)).status = "ok"

AllOk(calls) == \A k \in 1..Len(calls) : calls[k].ok

(* The j-th declared output that call c left: the j-th value from the top. *)
Output(c, j) == c.after[Len(c.after) + 1 - j]

(* C16: the map form calls f once per group, in group order, on the stack  *)
(* with the group pushed on it only if f takes an argument; it leaves what *)
(* was below its operands as it was, and when all calls succeed it ends    *)
(* with one value per declared output pushed, the first output on top, the *)
(* i-th row of each being the output for group i.                          *)
C16_MapForm ==
    (Collapsed /\ Sig(CollapseF).args \in {0, 1} /\ GroupsFormed) =>
        LET sig == Sig(CollapseF)
            c == last.calls
            base == Below(2)
        IN /\ Len(c) <= Len(last.groups)
           /\ \A k \in 1..Len(c) :
                 /\ c[k].f = CollapseF
                 /\ SeqValEq(c[k].stack,
                             IF sig.args = 1 THEN Append(base, last.groups[k]) ELSE base)
           /\ Len(stack) >= Len(base)
           /\ SeqValEq(SubSeq(stack, 1, Len(base)), base)
           /\ AllOk(c) => (Len(c) = Len(last.groups) /\ status \in {"ok", "combine"})
           /\ status = "ok" =>
                 /\ Len(stack) = Len(base) + sig.outputs
                 /\ \A j \in 1..sig.outputs :
                       LET v == stack[Len(stack) + 1 - j]
                       IN Len(c) > 0 =>
                             /\ row_count(v) = Len(c)
                             /\ \A g \in 1..Len(c) : ValEq(RowAt(v, g), Output(c[g], j))

(* C17: the reduce form gives its error, with no call, when there is no    *)
(* group and no fill value; otherwise it starts from the fill value, or    *)
(* from the first group when none is set, and folds the (other) groups in  *)
(* order: each call finds the group and, on top of it, the accumulator,    *)
(* its result is the next accumulator, and the last one is pushed.         *)
C17_ReduceForm ==
    (Collapsed /\ Sig(CollapseF) = [args |-> 2, outputs |-> 1] /\ GroupsFormed) =>
        LET c == last.calls
            base == Below(2)
            gs == last.groups
            filled == Len(last.fill) > 0
        IN IF ~filled /\ Len(gs) = 0
           THEN status = "no_groups" /\ Len(c) = 0 /\ SeqValEq(stack, base)
           ELSE LET acc0 == IF filled THEN last.fill[1] ELSE gs[1]
                    folded == IF filled THEN gs ELSE Tail(gs)
                    acc(k) == IF k = 0 THEN acc0 ELSE Top(c[k].after)
                IN /\ Len(c) <= Len(folded)
                   /\ \A k \in 1..Len(c) :
                         /\ c[k].f = CollapseF
                         /\ SeqValEq(c[k].stack,
                                     Append(Append(base, folded[k]), acc(k - 1)))
                   /\ AllOk(c) =>
                         /\ status = "ok"
                         /\ Len(c) = Len(folded)
                         /\ SeqValEq(stack, Append(base, acc(Len(c))))
                         /\ CollapseF = "join" =>
                               Top(stack).data =
                                   acc0.data
                                       \o Flatten([k \in 1..Len(folded) |-> folded[k].data])

C17_Witness ==
    /\ Collapsed
    /\ CollapseF = "join"
    /\ Len(last.fill) > 0
    /\ Len(last.groups) = 2
    /\ Len(last.calls) = 2
    /\ status = "ok"
    /\ Top(stack).data = <<5, 10, 30>>

NoFillIn(calls) ==
    \A k \in 1..Len(calls) :
        /\ Len(calls[k].fill) = 0
        /\ Len(calls[k].fill_after) = 0
        /\ \A j \in 1..Len(calls[k].inner) :
              /\ Len(calls[k].inner[j].fill) = 0
              /\ Len(calls[k].inner[j].fill_after) = 0

(* C18: every call of f made by collapse_groups, and every call made       *)
(* inside it by a nested partition, runs with no fill value, and when      *)
(* collapse_groups is over, with or without an error, the fill value is    *)
(* the one it started with.                                                *)
C18_FillMasked ==
    Collapsed =>
        /\ NoFillIn(last.calls)
        /\ Len(fill) = Len(last.fill)
        /\ Len(fill) > 0 => ValEq(fill[1], last.fill[1])

C18_Witness ==
    /\ Collapsed
    /\ CollapseF = "lim"
    /\ Len(last.fill) > 0
    /\ status = "call_error"
    /\ Len(last.calls) = 1
    /\ Len(fill) > 0

(* ---------------------------------------------------------------------- *)
(* array.rs                                                                *)
(* ---------------------------------------------------------------------- *)
(* C19: every array, however constructed and whatever reshape, deshape,    *)
(* sort and normalize calls followed, has as many data as the product of   *)
(* its shape.                                                              *)
C19_DataLenIsShapeProduct == Len(array.data) = Prod(array.shape)

(* C20: len is shape[0] for an array of rank >= 1 and 1 for a scalar, and  *)
(* is_empty is false of a scalar.                                          *)
C20_LenOfScalarIsOne ==
    /\ alast.op = "len" =>
          alast.result = IF Len(alast.before.shape) = 0 THEN 1
                         ELSE alast.before.shape[1]
    /\ (alast.op = "is_empty" /\ Len(alast.before.shape) = 0) => alast.result = FALSE

(* ---------------------------------------------------------------------- *)
(* array.rs: the pervasive operations                                      *)
(* ---------------------------------------------------------------------- *)
IsPervasive == alast.op \in Ops

OperandA == alast.before

OperandB == alast.result.other

Out == alast.result.out

IsPrefix(s, t) == Len(s) <= Len(t) /\ SubSeq(t, 1, Len(s)) = s

PrefixRelated(a, b) == IsPrefix(a.shape, b.shape) \/ IsPrefix(b.shape, a.shape)

WellFormed(a) == Len(a.data) = Prod(a.shape)

Longest(a, b) == IF Len(a.shape) >= Len(b.shape) THEN a.shape ELSE b.shape

ElementOf(a, i) == Lift(a.ty, a.data[(i % Len(a.data)) + 1])

(* Element i, counted from 0, of what the operation is to give.            *)
Expected(op, a, b, i) == Apply(op, ElementOf(a, i), ElementOf(b, i))

ResultIsPervaded(op, a, b, r) ==
    /\ r.shape = Longest(a, b)
    /\ Len(r.data) = Prod(Longest(a, b))
    /\ \A i \in 0..(Len(r.data) - 1) : ElementOf(r, i) = Expected(op, a, b, i)

C22_ShapeMismatch ==
    IsPervasive =>
        /\ shape_prefix_matches(OperandA, OperandB) <=> PrefixRelated(OperandA, OperandB)
        /\ ~PrefixRelated(OperandA, OperandB) =>
               (~Out.ok /\ Out.err = "ShapeMismatch")

(* The pairs of unboxed kinds C23 lists for each operation.                *)
Listed(op) ==
    IF op = "add" THEN {<<"Num", "Num">>, <<"Num", "Char">>, <<"Char", "Num">>}
    ELSE IF op \in {"is_eq", "is_ne", "is_lt", "is_le", "is_gt", "is_ge"}
    THEN {<<"Num", "Num">>, <<"Char", "Char">>}
    ELSE {<<"Num", "Num">>}

KindOf(e) == IF e.t = "num" THEN "Num" ELSE IF e.t = "char" THEN "Char" ELSE "Value"

AllListed(op, a, b) ==
    \A i \in 0..(Prod(Longest(a, b)) - 1) :
        <<KindOf(ElementOf(a, i)), KindOf(ElementOf(b, i))>> \in Listed(op)

Unboxed(a) == a.ty \in {"Num", "Char"}

(* The operation as C23 has it: on two arrays of unboxed kinds, rejected   *)
(* exactly when the pair is not listed; with a Value operand, applied      *)
(* element by element under the same list.                                 *)
TypedAsListed(op, a, b, out) ==
    (Unboxed(a) /\ Unboxed(b)) =>
        ((~out.ok /\ out.err = "TypeMismatch") <=> <<a.ty, b.ty>> \notin Listed(op))

BoxedAsListed(op, a, b, out) ==
    (/\ "Value" \in {a.ty, b.ty}
     /\ PrefixRelated(a, b)
     /\ WellFormed(a)
     /\ WellFormed(b)) =>
        IF AllListed(op, a, b)
        THEN out.ok /\ ResultIsPervaded(op, a, b, out.array)
        ELSE ~out.ok /\ out.err = "TypeMismatch"

(* C23: each operation accepts exactly the pairs of unboxed kinds of its   *)
(* table and rejects every other pair with a type mismatch, and with a     *)
(* Value operand is applied element by element to the inner values under   *)
(* the same table.                                                         *)
C23_TypeTable ==
    (IsPervasive /\ alast.op # "sub") =>
        /\ TypedAsListed(alast.op, OperandA, OperandB, Out)
        /\ BoxedAsListed(alast.op, OperandA, OperandB, Out)

(* ---------------------------------------------------------------------- *)
(* array.rs: normalization                                                 *)
(* ---------------------------------------------------------------------- *)
BuiltFromValues == alast.op \in {"from_values", "from_iter", "from_value"}

(* The values the array was built from.                                    *)
Given == alast.result

AllChars(v) == \A i \in 1..Len(v) : v[i].t = "char"

AllNums(v) == \A i \in 1..Len(v) : v[i].t = "num"

Elem(a, i) == Lift(a.ty, a.data[i])

SameElements(a, v) ==
    /\ Len(a.data) = Len(v)
    /\ \A i \in 1..Len(v) : Elem(a, i) = v[i]

(* Normalization keeps the shape and the elements in their order, leaves   *)
(* a Num or Char array as it is, and a second normalization changes        *)
(* nothing.                                                                *)
NormalizeKeeps ==
    alast.op = "normalize" =>
        /\ array.shape = alast.before.shape
        /\ Len(array.data) = Len(alast.before.data)
        /\ \A i \in 1..Len(array.data) : Elem(array, i) = Elem(alast.before, i)
        /\ alast.before.ty \in {"Num", "Char"} => array = alast.before
        /\ normalize(array) = array

(* C24 as amended: an array built from a sequence of values is a Char      *)
(* array if every value is a character (so also for the empty sequence),   *)
(* else a Num array if every value is a number, else a Value array; it     *)
(* holds the values in their order; and normalization keeps shape and      *)
(* order, leaves Num and Char arrays alone and is idempotent.              *)
C24_NarrowestKindCharFirst ==
    /\ BuiltFromValues =>
          /\ array.ty = IF AllChars(Given) THEN "Char"
                        ELSE IF AllNums(Given) THEN "Num" ELSE "Value"
          /\ array.shape = <<Len(Given)>>
          /\ SameElements(array, Given)
    /\ NormalizeKeeps

C24_Witness ==
    /\ BuiltFromValues
    /\ Len(Given) = 0
    /\ array.ty = "Char"
    /\ Len(array.data) = 0

(* C24: an array built from a sequence of values, the empty one included,  *)
(* is a Char array if every value is a character, a Num array if every     *)
(* value is a number and a Value array otherwise; normalization keeps      *)
(* shape and order, leaves Num and Char arrays alone and is idempotent.    *)
C24_NarrowestKind ==
    /\ BuiltFromValues =>
          /\ AllChars(Given) => array.ty = "Char"
          /\ AllNums(Given) => array.ty = "Num"
          /\ (~AllChars(Given) /\ ~AllNums(Given)) => array.ty = "Value"
          /\ SameElements(array, Given)
    /\ NormalizeKeeps

(* ---------------------------------------------------------------------- *)
(* unpartition_part1 / ungroup_part1: the order of the rows                *)
(* ---------------------------------------------------------------------- *)
IsPart1 ==
    /\ last.op \in {"unpartition_part1", "ungroup_part1"}
    /\ Len(last.fstack) > 0
    /\ Sig(Top(last.fstack)) = [args |-> 1, outputs |-> 1]
    /\ Len(last.stack) > 0

Part1Rows == into_rows(Top(last.stack))

(* f on row i alone.                                                       *)
OnRow(i) == Call(Top(last.fstack), <<Part1Rows[i]>>, last.fill)

FailingRows == {i \in 1..Len(Part1Rows) : ~OnRow(i).ok}

FirstFailing == CHOOSE i \in FailingRows : \A j \in FailingRows : i <= j

Part1Reported == last.calls[Len(last.calls)]

(* f fails on more than one row: the error is that of the first failing    *)
(* row, and f was called on no row after it.                               *)
Part1FirstError ==
    (IsPart1 /\ Cardinality(FailingRows) > 1) =>
        /\ status = "call_error"
        /\ ~Part1Reported.ok
        /\ SeqValEq(Part1Reported.arg, <<Part1Rows[FirstFailing]>>)
        /\ \A c \in 1..Len(last.calls) :
               \E j \in 1..FirstFailing :
                   SeqValEq(last.calls[c].arg, <<Part1Rows[j]>>)

(* f fails on no row: the array pushed holds the result of f on row i as   *)
(* its i-th element.                                                       *)
Part1Success ==
    (IsPart1 /\ FailingRows = {}) =>
        /\ status = "ok"
        /\ Len(stack) = Len(last.stack)
        /\ ValEq(Top(stack),
                 from_iter_boxed([i \in 1..Len(Part1Rows) |-> Top(OnRow(i).stack)]))

(* C25: when f fails on more than one row, unpartition_part1 and           *)
(* ungroup_part1 report the error of the first failing row in the          *)
(* original order of the rows and call f on no later row; when f fails on  *)
(* no row, the i-th element of the array pushed is the boxed result of f   *)
(* on row i.                                                               *)
C25_FirstErrorInRowOrder == Part1FirstError /\ Part1Success

(* ---------------------------------------------------------------------- *)
(* do_: the index of the copies                                            *)
(* ---------------------------------------------------------------------- *)
DoEntered == last.op = "do" /\ Len(last.fstack) >= 2 /\ status # "signature"

(* The stack iteration k of the loop starts with: the stack do_ was given, *)
(* or what the call of f before it left.                                   *)
IterationStart(k) == IF k = 1 THEN last.stack ELSE last.calls[2 * (k - 1)].after

Iterations ==
    {k \in 1..(Len(last.calls) \div 2 + 1) :
        k = 1 \/ last.calls[2 * (k - 1)].ok}

(* C26: do_ never reads outside the stack: the index stack_length -        *)
(* copy_count of every copy is a position of the stack, and an iteration   *)
(* that starts with fewer than copy_count values ends do_ with a stack     *)
(* underflow error, not in a failed index computation.                     *)
C26_DoStaysInStack ==
    DoEntered =>
        /\ status # "panic"
        /\ (\E k \in Iterations : Len(IterationStart(k)) < DoCopies) =>
               status = "underflow"

====
